---- MODULE Spec2Model ----
(***************************************************************************)
(* A model of the CHIP-8 emulator rust-chip8: the processor thread         *)
(* (src/src/cpu.rs, src/src/cpu/decode.rs), which fetches, decodes and     *)
(* executes one two-byte instruction per cycle, and the 60 Hz timer        *)
(* (src/src/timers.rs), which shares the delay counter with it.            *)
(***************************************************************************)
EXTENDS Integers, Sequences, FiniteSets, TLC

VARIABLES
    v,                \* cpu.rs:100   general-purpose registers V0..VF
    i,                \* cpu.rs:102   memory address register
    pc,               \* cpu.rs:106   program counter
    stack,            \* cpu.rs:107   return addresses
    sp,               \* cpu.rs:109   stack pointer
    memory,           \* cpu.rs:111   address space: the bytes that are not 0
    key_state,        \* cpu.rs:113   state of the 16 input keys
    frame_buffer,     \* cpu.rs:115   shared 64x32 bitmap, 8 bytes per row
    window_closed,    \* cpu.rs:122   messages in the window-closed channel
    key_events,       \* cpu.rs:123   events in the key-event channel
    window,           \* main.rs:30   position of the window thread
    delay_timer,      \* timers.rs:12 shared delay counter (content of the Mutex)
    delay_lock,       \* timers.rs:12 holder of the delay counter's Mutex
    timer_pc,         \* timers.rs:31 position of the periodic job
    timer_handle,     \* timers.rs:14 the scheduled job, once started
    fb_lock,          \* cpu.rs:115   holder of the frame buffer's RwLock
    draw,             \* cpu.rs:419   rows done and collision of the sprite being drawn
    rendered,         \* main.rs:24   the frame the window thread last read
    painted,          \* window.rs:58 the rectangles of the frame last painted
    status,           \* position of the processor thread
    instr,            \* cpu.rs:184   the instruction decoded in the current cycle
    overflow_checks   \* build profile: TRUE when integer overflow panics

cpu_regs == <<v, i, pc, stack, sp>>
chan_vars == <<window_closed, key_events>>
cpu_vars == <<v, i, pc, stack, sp, memory, key_state, frame_buffer, window_closed,
              key_events, status, instr>>
timer_vars == <<delay_timer, delay_lock, timer_pc, timer_handle>>
render_vars == <<fb_lock, draw, rendered, painted>>
vars == <<v, i, pc, stack, sp, memory, key_state, frame_buffer, window_closed,
          key_events, window, delay_timer, delay_lock, timer_pc, timer_handle,
          fb_lock, draw, rendered, painted, status, instr, overflow_checks>>

-----------------------------------------------------------------------------
(* Program constants *)

NUM_REGS == 16
STACK_SIZE == 16
MEMORY_SIZE == 4096
NUM_KEYS == 16
FRAME_BUFFER_BYTES == 256
PROGRAM_START == 512

Byte == 0..255
RegIdx == 0..(NUM_REGS - 1)

-----------------------------------------------------------------------------
(* u8 arithmetic *)

Pow2(k) == CASE k = 0 -> 1 [] k = 1 -> 2 [] k = 2 -> 4 [] k = 3 -> 8
             [] k = 4 -> 16 [] k = 5 -> 32 [] k = 6 -> 64 [] k = 7 -> 128
             [] k = 8 -> 256 [] k = 12 -> 4096 [] k = 16 -> 65536

Bit(b, k) == (b \div Pow2(k)) % 2

\* a & b on bytes
BitAnd(a, b) ==
    LET t(k) == Bit(a, k) * Bit(b, k) * Pow2(k)
    IN  t(0) + t(1) + t(2) + t(3) + t(4) + t(5) + t(6) + t(7)

\* a | b on bytes
BitOr(a, b) ==
    LET t(k) == (IF Bit(a, k) + Bit(b, k) > 0 THEN 1 ELSE 0) * Pow2(k)
    IN  t(0) + t(1) + t(2) + t(3) + t(4) + t(5) + t(6) + t(7)

\* a ^ b on bytes
BitXor(a, b) ==
    LET t(k) == ((Bit(a, k) + Bit(b, k)) % 2) * Pow2(k)
    IN  t(0) + t(1) + t(2) + t(3) + t(4) + t(5) + t(6) + t(7)

\* a >> k on a u8, k in 0..7
Shr(a, k) == a \div Pow2(k)

\* a << k on a u8, k in 0..7: the bits shifted past bit 7 are lost
Shl(a, k) == (a * Pow2(k)) % 256

\* u8::wrapping_add
wrapping_add(a, b) == (a + b) % 256

\* u8::overflowing_add
overflowing_add(a, b) == [sum |-> (a + b) % 256, did_overflow |-> a + b > 255]

\* u8::checked_shl: None when the shift is 8 bits or more
checked_shl(a, k) == IF k >= 8 THEN [some |-> FALSE, val |-> 0]
                     ELSE [some |-> TRUE, val |-> Shl(a, k)]

-----------------------------------------------------------------------------
(* The decoder, cpu/decode.rs *)

extract_lower_nibble(byte) == byte % 16

\* The upper nibble masked and not shifted down: a plausible slip
extract_upper_nibble_masked(byte) == byte - (byte % 16)

extract_upper_nibble(byte) == (byte \div 16) % 16

\* The upper part shifted by four bits for eight: a plausible slip
extract_addr_short(msb, lsb) == lsb + (msb % 16) * 16

extract_addr(msb, lsb) == lsb + extract_lower_nibble(msb) * 256

\* The word reported without its first byte: a plausible slip
UnknownOpCodeLow(msb, lsb) == [tag |-> "UnknownOpCode", word |-> lsb]

UnknownOpCode(msb, lsb) == [tag |-> "UnknownOpCode", word |-> lsb + msb * 256]

decode_8(msb, lsb) ==
    LET x == extract_lower_nibble(msb)
        y == extract_upper_nibble(lsb)
        n == lsb % 16
    IN  CASE n = 0  -> [tag |-> "LdRegReg", reg_x |-> x, reg_y |-> y]
          [] n = 1  -> [tag |-> "OrRegs", reg_x |-> x, reg_y |-> y]
          [] n = 2  -> [tag |-> "AndRegs", reg_x |-> x, reg_y |-> y]
          [] n = 3  -> [tag |-> "XorRegs", reg_x |-> x, reg_y |-> y]
          [] n = 4  -> [tag |-> "AddRegs", reg_x |-> x, reg_y |-> y]
          [] n = 6  -> [tag |-> "ShiftRightReg", reg |-> x]
          [] n = 14 -> [tag |-> "ShiftLeftReg", reg |-> x]
          [] OTHER  -> UnknownOpCode(msb, lsb)

decode_F(msb, lsb) ==
    LET x == extract_lower_nibble(msb)
    IN  CASE lsb = 7   -> [tag |-> "LdRegDt", reg |-> x]
          [] lsb = 10  -> [tag |-> "LdRegKey", reg |-> x]
          [] lsb = 21  -> [tag |-> "LdDtReg", reg |-> x]
          [] lsb = 30  -> [tag |-> "AddIReg", reg |-> x]
          [] lsb = 41  -> [tag |-> "LdIDigitReg", reg |-> x]
          [] lsb = 51  -> [tag |-> "LdMemIBcdReg", reg |-> x]
          [] lsb = 85  -> [tag |-> "LdMemIRegs", last_reg |-> x]
          [] lsb = 101 -> [tag |-> "LdRegsMemI", last_reg |-> x]
          [] OTHER     -> UnknownOpCode(msb, lsb)

\* CLS and RET told by the second byte alone: a plausible slip
decode_0_low_byte(msb, lsb) ==
    IF lsb = 224 THEN [tag |-> "Clear"]
    ELSE IF lsb = 238 THEN [tag |-> "Ret"]
    ELSE [tag |-> "Sys"]

\* The arms [0x00, 0xE0], [0x00, 0xEE] and [0x00...0x0F, _], tried in this order
decode_0(msb, lsb) ==
    IF msb = 0 /\ lsb = 224 THEN [tag |-> "Clear"]
    ELSE IF msb = 0 /\ lsb = 238 THEN [tag |-> "Ret"]
    ELSE [tag |-> "Sys"]

\* code is the two-byte slice <<msb, lsb>>
decode_instruction(code) ==
    LET msb == code[1]
        lsb == code[2]
        h == msb \div 16
        x == extract_lower_nibble(msb)
    IN  CASE h = 0  -> decode_0(msb, lsb)
          [] h = 1  -> [tag |-> "Jump", addr |-> extract_addr(msb, lsb)]
          [] h = 2  -> [tag |-> "Call", addr |-> extract_addr(msb, lsb)]
          [] h = 3  -> [tag |-> "SkipEqRegBytes", reg |-> x, val |-> lsb]
          [] h = 4  -> [tag |-> "SkipNEqRegBytes", reg |-> x, val |-> lsb]
          [] h = 6  -> [tag |-> "LdRegByte", reg |-> x, val |-> lsb]
          [] h = 7  -> [tag |-> "AddRegByte", reg |-> x, val |-> lsb]
          [] h = 8  -> decode_8(msb, lsb)
          [] h = 9  -> [tag |-> "SkipNEqRegs", reg_x |-> x,
                        reg_y |-> extract_upper_nibble(lsb)]
          [] h = 10 -> [tag |-> "LdIAddr", addr |-> extract_addr(msb, lsb)]
          [] h = 12 -> [tag |-> "RandRegByte", reg |-> x, val |-> lsb]
          [] h = 13 -> [tag |-> "Draw", reg_x |-> x,
                        reg_y |-> extract_upper_nibble(lsb),
                        sprite_bytes |-> lsb % 16]
          [] h = 14 /\ lsb = 158 -> [tag |-> "SkipRegKeyPressed", reg |-> x]
          [] h = 14 /\ lsb = 161 -> [tag |-> "SkipRegKeyNPressed", reg |-> x]
          [] h = 15 -> decode_F(msb, lsb)
          [] OTHER  -> UnknownOpCode(msb, lsb)

-----------------------------------------------------------------------------
(* Construction and program load *)

\* The built-in digit sprites, five bytes per hexadecimal digit.
DIGITS ==
    << 240, 144, 144, 144, 240,   32,  96,  32,  32, 112,
       240,  16, 240, 128, 240,  240,  16, 240,  16, 240,
       144, 144, 240,  16,  16,  240, 128, 240,  16, 240,
       240, 128, 240, 144, 240,  240,  16,  32,  64,  64,
       240, 144, 240, 144, 240,  240, 144, 240,  16, 240,
       240, 144, 240, 144, 144,  224, 144, 224, 144, 224,
       240, 128, 128, 128, 240,  224, 144, 144, 144, 224,
       240, 128, 240, 128, 240,  240, 128, 240, 128, 128 >>

\* The address space is an array of 4096 bytes, nearly all of them 0.  The
\* variable memory holds it as the function from the addresses of its nonzero
\* bytes to those bytes: MemAt reads an address of the array, MemOf is the
\* array whose byte at a is at[a] on addrs and the byte of mem elsewhere.
MemAt(mem, a) == IF a \in DOMAIN mem THEN mem[a] ELSE 0

MemOf(mem, addrs, at) ==
    LET byte(a) == IF a \in addrs THEN at[a] ELSE mem[a]
    IN  [a \in {b \in (DOMAIN mem) \cup addrs : byte(b) # 0} |-> byte(a)]

\* let mut memory = [0 as u8; 4096]
ZeroMemory == [a \in {} |-> 0]

\* CPU::new, with the shared cells main creates
Init ==
    /\ v = [r \in RegIdx |-> 0]
    /\ i = 0
    /\ pc = PROGRAM_START
    /\ stack = [s \in 0..(STACK_SIZE - 1) |-> 0]
    /\ sp = 0
    /\ memory = MemOf(ZeroMemory, 0..(Len(DIGITS) - 1),
                       [a \in 0..(Len(DIGITS) - 1) |-> DIGITS[a + 1]])
    /\ key_state = [k \in 0..(NUM_KEYS - 1) |-> FALSE]
    /\ frame_buffer = [b \in 0..(FRAME_BUFFER_BYTES - 1) |-> 0]
    /\ window_closed = <<>>
    /\ key_events = <<>>
    /\ window = "open"
    /\ delay_timer = 0
    /\ delay_lock = "free"
    /\ timer_pc = "idle"
    /\ timer_handle = "None"
    /\ fb_lock = "free"
    /\ draw = [k |-> 0, collision |-> FALSE]
    /\ rendered = [b \in 0..(FRAME_BUFFER_BYTES - 1) |-> 0]
    /\ painted = {}
    /\ status = "new"
    /\ instr = [tag |-> "None"]
    /\ overflow_checks \in BOOLEAN

\* The file read into the memory from address 0: a plausible slip
load_game_data_low(rom) ==
    /\ status = "new"
    /\ IF Len(rom) > 0
       THEN /\ LET read == IF Len(rom) <= MEMORY_SIZE THEN Len(rom) ELSE MEMORY_SIZE
                    dest == 0..(read - 1)
                IN  memory' = MemOf(memory, dest, [a \in dest |-> rom[a + 1]])
            /\ status' = "running"
       ELSE /\ memory' = memory
            /\ status' = "panicked"
    /\ UNCHANGED <<cpu_regs, key_state, frame_buffer, chan_vars, instr,
                   timer_vars, overflow_checks, window, render_vars>>

\* CPU::load_game_data: the file's bytes go to memory[0x200..]; an empty read
\* fails the assertion.
load_game_data(rom) ==
    /\ status = "new"
    /\ IF Len(rom) > 0
       THEN /\ LET read == IF Len(rom) <= MEMORY_SIZE - PROGRAM_START
                            THEN Len(rom) ELSE MEMORY_SIZE - PROGRAM_START
                    dest == PROGRAM_START..(PROGRAM_START + read - 1)
                IN  memory' = MemOf(memory, dest,
                                    [a \in dest |-> rom[a - PROGRAM_START + 1]])
            /\ status' = "running"
       ELSE /\ memory' = memory
            /\ status' = "panicked"
    /\ UNCHANGED <<cpu_regs, key_state, frame_buffer, chan_vars, instr,
                   timer_vars, overflow_checks, window, render_vars>>

-----------------------------------------------------------------------------
(* The fetch-decode-execute cycle, CPU::run and CPU::execute.  One cycle is    *)
(* one action; the action is chosen by the operation decoded at pc.            *)

\* The slice memory[pc..pc + 2] exists
CanFetch == pc + 2 <= MEMORY_SIZE

\* decode_instruction(&memory[pc..pc + 2])
Fetched == decode_instruction(<<MemAt(memory, pc), MemAt(memory, pc + 1)>>)

\* get_keycode: the hexadecimal key of a keyboard button, if it has one
get_keycode(button) ==
    CASE button = "D0" -> [some |-> TRUE, keycode |-> 0]
      [] button = "D1" -> [some |-> TRUE, keycode |-> 1]
      [] button = "D2" -> [some |-> TRUE, keycode |-> 2]
      [] button = "D3" -> [some |-> TRUE, keycode |-> 3]
      [] button = "D4" -> [some |-> TRUE, keycode |-> 4]
      [] button = "D5" -> [some |-> TRUE, keycode |-> 5]
      [] button = "D6" -> [some |-> TRUE, keycode |-> 6]
      [] button = "D7" -> [some |-> TRUE, keycode |-> 7]
      [] button = "D8" -> [some |-> TRUE, keycode |-> 8]
      [] button = "D9" -> [some |-> TRUE, keycode |-> 9]
      [] button = "A"  -> [some |-> TRUE, keycode |-> 10]
      [] button = "B"  -> [some |-> TRUE, keycode |-> 11]
      [] button = "C"  -> [some |-> TRUE, keycode |-> 12]
      [] button = "D"  -> [some |-> TRUE, keycode |-> 13]
      [] button = "E"  -> [some |-> TRUE, keycode |-> 14]
      [] button = "F"  -> [some |-> TRUE, keycode |-> 15]
      [] OTHER         -> [some |-> FALSE, keycode |-> 0]

\* The body of update_key_state's loop for one event: a press of a mapped
\* button sets its entry, a release clears it, any other event does nothing
key_event_applied(keys, event) ==
    LET k == get_keycode(event.button)
    IN  IF ~k.some THEN keys
        ELSE IF event.kind = "press" THEN [keys EXCEPT ![k.keycode] = TRUE]
        ELSE IF event.kind = "release" THEN [keys EXCEPT ![k.keycode] = FALSE]
        ELSE keys

\* The events applied from the last to the first: a plausible slip
RECURSIVE update_key_state_reversed(_, _)
update_key_state_reversed(keys, events) ==
    IF events = <<>> THEN keys
    ELSE key_event_applied(update_key_state_reversed(keys, Tail(events)),
                           Head(events))

\* update_key_state: while let Ok(event) = key_event_receiver.try_recv()
RECURSIVE update_key_state(_, _)
update_key_state(keys, events) ==
    IF events = <<>> THEN keys
    ELSE update_key_state(key_event_applied(keys, Head(events)), Tail(events))

\* The key states the cycle's instruction sees
Keys == update_key_state(key_state, key_events)

\* if let Ok(true) = self.window_closed_receiver.try_recv(): the message at
\* the front of the channel is true
Closing == window_closed # <<>> /\ Head(window_closed)

\* The cycle goes on without a look at the window-closed channel: a plausible
\* slip
TopOfCycleUnchecked ==
    /\ status = "running"
    /\ window_closed' = window_closed
    /\ key_state' = Keys
    /\ key_events' = <<>>

\* The top of a cycle of run's loop that goes on: try_recv takes the message at
\* the front of the window-closed channel, if there is one, and
\* update_key_state empties the key-event channel
TopOfCycle ==
    /\ status = "running"
    /\ ~Closing
    /\ window_closed' = IF window_closed = <<>> THEN <<>> ELSE Tail(window_closed)
    /\ key_state' = Keys
    /\ key_events' = <<>>

\* The loop is left: break
ExecStop ==
    /\ status = "running"
    /\ Closing
    /\ window_closed' = Tail(window_closed)
    /\ status' = "stopped"
    /\ UNCHANGED <<cpu_regs, memory, key_state, frame_buffer, key_events, instr,
                   timer_vars, overflow_checks, window, render_vars>>

\* The cycle fetches an operation of this kind
Executing(tag) ==
    /\ TopOfCycle
    /\ CanFetch
    /\ Fetched.tag = tag
    /\ instr' = Fetched

\* The processor thread panics: it executes nothing further
Panics == status' = "panicked"
Continues == status' = status

\* The program counter taken modulo the memory size where the slice does not
\* exist: a plausible slip
FetchWraps ==
    /\ TopOfCycle
    /\ ~CanFetch
    /\ pc' = (pc + 2) % MEMORY_SIZE
    /\ Continues
    /\ UNCHANGED <<v, i, stack, sp, memory, frame_buffer, instr, timer_vars,
                   overflow_checks, window, render_vars>>

\* let code = &self.memory[pc..pc + 2] with pc + 2 beyond the memory
FetchPanic ==
    /\ TopOfCycle
    /\ ~CanFetch
    /\ Panics
    /\ UNCHANGED <<cpu_regs, memory, frame_buffer, instr, timer_vars,
                   overflow_checks, window, render_vars>>

\* let instr = decode_instruction(&code) alone, as the decoder's tests call
\* it: the operation is decoded and not executed
DecodeFetched ==
    /\ status = "running"
    /\ instr.tag = "None"
    /\ CanFetch
    /\ Fetched.tag # "UnknownOpCode"
    /\ instr' = Fetched
    /\ UNCHANGED <<cpu_regs, memory, key_state, frame_buffer, chan_vars, status,
                   timer_vars, overflow_checks, window, render_vars>>

\* decode_instruction's panic!("Unknown op code {:x}", word)
DecodePanic ==
    /\ Executing("UnknownOpCode")
    /\ Panics
    /\ UNCHANGED <<cpu_regs, memory, frame_buffer, timer_vars,
                   overflow_checks, window, render_vars>>

ExecAddIReg ==
    /\ Executing("AddIReg")
    /\ i' = i + v[Fetched.reg]
    /\ pc' = pc + 2
    /\ Continues
    /\ UNCHANGED <<v, stack, sp, memory, frame_buffer, timer_vars,
                   overflow_checks, window, render_vars>>

\* The carry stored in VF as the register add does: a plausible slip
AddRegByteCarry(regs, reg, val) ==
    [[regs EXCEPT ![reg] = wrapping_add(regs[reg], val)]
        EXCEPT ![15] = IF regs[reg] + val > 255 THEN 1 ELSE 0]

\* self.v[reg] = self.v[reg].wrapping_add(val)
AddRegByte(regs, reg, val) ==
    [regs EXCEPT ![reg] = wrapping_add(regs[reg], val)]

ExecAddRegByte ==
    /\ Executing("AddRegByte")
    /\ v' = AddRegByte(v, Fetched.reg, Fetched.val)
    /\ pc' = pc + 2
    /\ Continues
    /\ UNCHANGED <<i, stack, sp, memory, frame_buffer, timer_vars,
                   overflow_checks, window, render_vars>>

\* The flag stored before the sum: a plausible slip
AddRegsFlagFirst(regs, reg_x, reg_y) ==
    LET r == overflowing_add(regs[reg_x], regs[reg_y])
    IN  [[regs EXCEPT ![15] = IF r.did_overflow THEN 1 ELSE 0]
            EXCEPT ![reg_x] = r.sum]

\* self.v[reg_x] = sum; self.v[0xF] = if did_overflow { 1 } else { 0 };
AddRegs(regs, reg_x, reg_y) ==
    LET r == overflowing_add(regs[reg_x], regs[reg_y])
    IN  [[regs EXCEPT ![reg_x] = r.sum]
            EXCEPT ![15] = IF r.did_overflow THEN 1 ELSE 0]

ExecAddRegs ==
    /\ Executing("AddRegs")
    /\ v' = AddRegs(v, Fetched.reg_x, Fetched.reg_y)
    /\ pc' = pc + 2
    /\ Continues
    /\ UNCHANGED <<i, stack, sp, memory, frame_buffer, timer_vars,
                   overflow_checks, window, render_vars>>

ExecAndRegs ==
    /\ Executing("AndRegs")
    /\ v' = [v EXCEPT ![Fetched.reg_x] = BitAnd(v[Fetched.reg_x], v[Fetched.reg_y])]
    /\ pc' = pc + 2
    /\ Continues
    /\ UNCHANGED <<i, stack, sp, memory, frame_buffer, timer_vars,
                   overflow_checks, window, render_vars>>

\* The address of the following instruction stored: a plausible slip
CallPushNext(p) == (p + 2) % 65536

\* self.stack[self.sp] = self.pc as u16
CallPush(p) == p % 65536

\* The call that does not find the stack full: a plausible slip
ExecCallUnbounded ==
    /\ Executing("Call")
    /\ stack' = [k \in 0..(STACK_SIZE - 1) |-> IF k = sp THEN CallPush(pc) ELSE stack[k]]
    /\ sp' = sp + 1
    /\ pc' = Fetched.addr
    /\ Continues
    /\ UNCHANGED <<v, i, memory, frame_buffer, timer_vars,
                   overflow_checks, window, render_vars>>

\* The pointer raised before the entry is stored: a plausible slip
ExecCallRaisedFirst ==
    /\ Executing("Call")
    /\ sp' = sp + 1
    /\ IF sp < STACK_SIZE
       THEN /\ stack' = [stack EXCEPT ![sp] = CallPush(pc)]
            /\ pc' = Fetched.addr
            /\ Continues
       ELSE /\ Panics
            /\ UNCHANGED <<stack, pc>>
    /\ UNCHANGED <<v, i, memory, frame_buffer, timer_vars,
                   overflow_checks, window, render_vars>>

\* stack[sp] with sp >= 16 is an index out of bounds
ExecCall ==
    /\ Executing("Call")
    /\ IF sp < STACK_SIZE
       THEN /\ stack' = [stack EXCEPT ![sp] = CallPush(pc)]
            /\ sp' = sp + 1
            /\ pc' = Fetched.addr
            /\ Continues
       ELSE /\ Panics
            /\ UNCHANGED <<stack, sp, pc>>
    /\ UNCHANGED <<v, i, memory, frame_buffer, timer_vars,
                   overflow_checks, window, render_vars>>

\* frame_buffer.write(): no reader and no writer holds the lock
FbWritable == fb_lock = "free"

ExecClear ==
    /\ Executing("Clear")
    /\ FbWritable
    /\ frame_buffer' = [b \in 0..(FRAME_BUFFER_BYTES - 1) |-> 0]
    /\ pc' = pc + 2
    /\ Continues
    /\ UNCHANGED <<v, i, stack, sp, memory, timer_vars,
                   overflow_checks, window, render_vars>>

ExecLdIAddr ==
    /\ Executing("LdIAddr")
    /\ i' = Fetched.addr
    /\ pc' = pc + 2
    /\ Continues
    /\ UNCHANGED <<v, stack, sp, memory, frame_buffer, timer_vars,
                   overflow_checks, window, render_vars>>

ExecLdIDigitReg ==
    /\ Executing("LdIDigitReg")
    /\ i' = 5 * v[Fetched.reg]
    /\ pc' = pc + 2
    /\ Continues
    /\ UNCHANGED <<v, stack, sp, memory, frame_buffer, timer_vars,
                   overflow_checks, window, render_vars>>

\* Stores vals[1], vals[2], ... at base, base + 1, ... in order; the first
\* index beyond the memory panics, with the stores before it done.
StoreBytes(mem, base, vals) ==
    LET room == IF base >= MEMORY_SIZE THEN 0 ELSE MEMORY_SIZE - base
        done == IF Len(vals) <= room THEN Len(vals) ELSE room
        dest == base..(base + done - 1)
    IN  [mem |-> MemOf(mem, dest, [a \in dest |-> vals[a - base + 1]]),
         ok |-> done = Len(vals)]

\* The tens taken without the % 10: a plausible slip
BcdTensWide(reg_val) == <<reg_val \div 100, reg_val \div 10, reg_val % 10>>

\* hundreds, tens, ones of a register value
Bcd(reg_val) == <<reg_val \div 100, (reg_val \div 10) % 10, reg_val % 10>>

ExecLdMemIBcdReg ==
    /\ Executing("LdMemIBcdReg")
    /\ LET r == StoreBytes(memory, i, Bcd(v[Fetched.reg]))
       IN  /\ memory' = r.mem
           /\ IF r.ok THEN pc' = pc + 2 /\ Continues
                      ELSE pc' = pc /\ Panics
    /\ UNCHANGED <<v, i, stack, sp, frame_buffer, timer_vars,
                   overflow_checks, window, render_vars>>

ExecLdMemIRegs ==
    /\ Executing("LdMemIRegs")
    /\ LET last_reg == Fetched.last_reg
           r == StoreBytes(memory, i, [k \in 1..(last_reg + 1) |-> v[k - 1]])
       IN  /\ memory' = r.mem
           /\ IF r.ok THEN i' = i + last_reg + 1 /\ pc' = pc + 2 /\ Continues
                      ELSE i' = i /\ pc' = pc /\ Panics
    /\ UNCHANGED <<v, stack, sp, frame_buffer, timer_vars,
                   overflow_checks, window, render_vars>>

ExecLdRegByte ==
    /\ Executing("LdRegByte")
    /\ v' = [v EXCEPT ![Fetched.reg] = Fetched.val]
    /\ pc' = pc + 2
    /\ Continues
    /\ UNCHANGED <<i, stack, sp, memory, frame_buffer, timer_vars,
                   overflow_checks, window, render_vars>>

\* LD Vx,K: the cycle enters while let Ok(event) = key_event_receiver.recv()
\* and blocks there; the events it receives are those sent after the drain at
\* the top of the cycle.
ExecLdRegKey ==
    /\ Executing("LdRegKey")
    /\ status' = "waiting"
    /\ UNCHANGED <<cpu_regs, memory, frame_buffer, timer_vars, overflow_checks, window, render_vars>>

\* One event received by the blocked recv(): the press of a mapped button
\* sets its key and the register and leaves the loop, after which the cycle
\* ends with pc + 2; a release clears its key; anything else is dropped.
KeyWaitRecv ==
    /\ status = "waiting"
    /\ key_events # <<>>
    /\ LET event == Head(key_events)
           k == get_keycode(event.button)
       IN  IF event.kind = "press" /\ k.some
           THEN /\ key_state' = [key_state EXCEPT ![k.keycode] = TRUE]
                /\ v' = [v EXCEPT ![instr.reg] = k.keycode]
                /\ pc' = pc + 2
                /\ status' = "running"
           ELSE /\ key_state' = key_event_applied(key_state, event)
                /\ UNCHANGED <<v, pc, status>>
    /\ key_events' = Tail(key_events)
    /\ UNCHANGED <<i, stack, sp, memory, frame_buffer, window_closed, instr,
                   timer_vars, overflow_checks, window, render_vars>>

\* The wait that goes on when the channel is closed: a plausible slip
KeyWaitDisconnectedStays ==
    /\ status = "waiting"
    /\ key_events = <<>>
    /\ window = "ended"
    /\ UNCHANGED vars

\* recv() on the empty channel whose sender is dropped returns Err: the
\* while let loop is left with no key taken, and the cycle ends with pc + 2
KeyWaitDisconnected ==
    /\ status = "waiting"
    /\ key_events = <<>>
    /\ window = "ended"
    /\ pc' = pc + 2
    /\ status' = "running"
    /\ UNCHANGED <<v, i, stack, sp, memory, key_state, frame_buffer, chan_vars,
                   instr, timer_vars, overflow_checks, window, render_vars>>

\* Bytes the random number generator is seen to return
RandBytes == {0, 85, 170, 255}

\* let rand_val = self.rng.gen_byte(); self.v[reg] = val & rand_val
ExecRandRegByte ==
    /\ Executing("RandRegByte")
    /\ \E rand_val \in RandBytes :
          v' = [v EXCEPT ![Fetched.reg] = BitAnd(Fetched.val, rand_val)]
    /\ pc' = pc + 2
    /\ Continues
    /\ UNCHANGED <<i, stack, sp, memory, frame_buffer, timer_vars,
                   overflow_checks, window, render_vars>>

\* The load that leaves I where it was: a plausible slip
ExecLdRegsMemIKeepI ==
    /\ Executing("LdRegsMemI")
    /\ LET last_reg == Fetched.last_reg
           ok == i + last_reg < MEMORY_SIZE
       IN  /\ v' = [r \in RegIdx |->
                      IF r <= last_reg /\ i + r < MEMORY_SIZE
                      THEN MemAt(memory, i + r)
                      ELSE v[r]]
           /\ IF ok THEN i' = i /\ pc' = pc + 2 /\ Continues
                    ELSE i' = i /\ pc' = pc /\ Panics
    /\ UNCHANGED <<stack, sp, memory, frame_buffer, timer_vars,
                   overflow_checks, window, render_vars>>

\* for i in 0..=last_reg { self.v[i] = self.memory[self.i + i] }: the first
\* index beyond the memory panics, with the registers before it loaded.
ExecLdRegsMemI ==
    /\ Executing("LdRegsMemI")
    /\ LET last_reg == Fetched.last_reg
           ok == i + last_reg < MEMORY_SIZE
       IN  /\ v' = [r \in RegIdx |->
                      IF r <= last_reg /\ i + r < MEMORY_SIZE
                      THEN MemAt(memory, i + r)
                      ELSE v[r]]
           /\ IF ok THEN i' = i + last_reg + 1 /\ pc' = pc + 2 /\ Continues
                    ELSE i' = i /\ pc' = pc /\ Panics
    /\ UNCHANGED <<stack, sp, memory, frame_buffer, timer_vars,
                   overflow_checks, window, render_vars>>

ExecLdRegReg ==
    /\ Executing("LdRegReg")
    /\ v' = [v EXCEPT ![Fetched.reg_x] = v[Fetched.reg_y]]
    /\ pc' = pc + 2
    /\ Continues
    /\ UNCHANGED <<i, stack, sp, memory, frame_buffer, timer_vars,
                   overflow_checks, window, render_vars>>

ExecJump ==
    /\ Executing("Jump")
    /\ pc' = Fetched.addr
    /\ Continues
    /\ UNCHANGED <<v, i, stack, sp, memory, frame_buffer, timer_vars,
                   overflow_checks, window, render_vars>>

\* The return address taken without the + 2: a plausible slip
RetTargetSame(addr) == addr

\* new_pc = self.stack[self.sp] as usize + 2
RetTarget(addr) == addr + 2

\* usize::MAX, the value sp wraps to without overflow checks; it is beyond
\* TLC's integers and stands here as -1 (any value outside 0..16 panics the
\* index that follows).
USIZE_WRAPPED == 0 - 1

\* The pointer going round within the stack: a plausible slip
ExecRetRound ==
    /\ Executing("Ret")
    /\ sp' = (sp + STACK_SIZE - 1) % STACK_SIZE
    /\ pc' = RetTarget(stack[(sp + STACK_SIZE - 1) % STACK_SIZE])
    /\ Continues
    /\ UNCHANGED <<v, i, stack, memory, frame_buffer, timer_vars,
                   overflow_checks, window, render_vars>>

\* self.sp -= 1 with sp = 0 panics when overflow is checked, and otherwise
\* wraps, after which stack[sp] is an index out of bounds.
ExecRet ==
    /\ Executing("Ret")
    /\ IF sp > 0
       THEN /\ sp' = sp - 1
            /\ pc' = RetTarget(stack[sp - 1])
            /\ Continues
       ELSE /\ sp' = IF overflow_checks THEN sp ELSE USIZE_WRAPPED
            /\ pc' = pc
            /\ Panics
    /\ UNCHANGED <<v, i, stack, memory, frame_buffer, timer_vars,
                   overflow_checks, window, render_vars>>

\* self.v[0xF] = self.v[reg] & 1; self.v[reg] >>= 1;
ShiftRight(regs, reg) ==
    LET flagged == [regs EXCEPT ![15] = BitAnd(regs[reg], 1)]
    IN  [flagged EXCEPT ![reg] = Shr(flagged[reg], 1)]

ExecShiftRightReg ==
    /\ Executing("ShiftRightReg")
    /\ v' = ShiftRight(v, Fetched.reg)
    /\ pc' = pc + 2
    /\ Continues
    /\ UNCHANGED <<i, stack, sp, memory, frame_buffer, timer_vars,
                   overflow_checks, window, render_vars>>

ExecSkipEqRegBytes ==
    /\ Executing("SkipEqRegBytes")
    /\ pc' = IF v[Fetched.reg] = Fetched.val THEN pc + 4 ELSE pc + 2
    /\ Continues
    /\ UNCHANGED <<v, i, stack, sp, memory, frame_buffer, timer_vars,
                   overflow_checks, window, render_vars>>

\* SNE skipping on equality as SE does: a plausible slip
ExecSkipNEqRegBytesEq ==
    /\ Executing("SkipNEqRegBytes")
    /\ pc' = IF v[Fetched.reg] = Fetched.val THEN pc + 4 ELSE pc + 2
    /\ Continues
    /\ UNCHANGED <<v, i, stack, sp, memory, frame_buffer, timer_vars,
                   overflow_checks, window, render_vars>>

ExecSkipNEqRegBytes ==
    /\ Executing("SkipNEqRegBytes")
    /\ pc' = IF v[Fetched.reg] # Fetched.val THEN pc + 4 ELSE pc + 2
    /\ Continues
    /\ UNCHANGED <<v, i, stack, sp, memory, frame_buffer, timer_vars,
                   overflow_checks, window, render_vars>>

\* The key looked up as it was before the pending events: a plausible slip
ExecSkipRegKeyPressedStale ==
    /\ Executing("SkipRegKeyPressed")
    /\ IF v[Fetched.reg] < NUM_KEYS
       THEN /\ pc' = IF key_state[v[Fetched.reg]] THEN pc + 4 ELSE pc + 2
            /\ Continues
       ELSE pc' = pc /\ Panics
    /\ UNCHANGED <<v, i, stack, sp, memory, frame_buffer, timer_vars,
                   overflow_checks, window, render_vars>>

\* key_state[v[reg]] with v[reg] >= 16 is an index out of bounds
ExecSkipRegKeyPressed ==
    /\ Executing("SkipRegKeyPressed")
    /\ IF v[Fetched.reg] < NUM_KEYS
       THEN /\ pc' = IF Keys[v[Fetched.reg]] THEN pc + 4 ELSE pc + 2
            /\ Continues
       ELSE pc' = pc /\ Panics
    /\ UNCHANGED <<v, i, stack, sp, memory, frame_buffer, timer_vars,
                   overflow_checks, window, render_vars>>

ExecSkipRegKeyNPressed ==
    /\ Executing("SkipRegKeyNPressed")
    /\ IF v[Fetched.reg] < NUM_KEYS
       THEN /\ pc' = IF ~Keys[v[Fetched.reg]] THEN pc + 4 ELSE pc + 2
            /\ Continues
       ELSE pc' = pc /\ Panics
    /\ UNCHANGED <<v, i, stack, sp, memory, frame_buffer, timer_vars,
                   overflow_checks, window, render_vars>>

\* SYS taken for a skip: a plausible slip
ExecSysSkip ==
    /\ Executing("Sys")
    /\ pc' = pc + 4
    /\ Continues
    /\ UNCHANGED <<v, i, stack, sp, memory, frame_buffer, timer_vars,
                   overflow_checks, window, render_vars>>

ExecSys ==
    /\ Executing("Sys")
    /\ pc' = pc + 2
    /\ Continues
    /\ UNCHANGED <<v, i, stack, sp, memory, frame_buffer, timer_vars,
                   overflow_checks, window, render_vars>>

-----------------------------------------------------------------------------
(* The display compositor, CPU::draw_sprite *)

\* u8 multiplication and addition: overflow panics when it is checked and
\* wraps otherwise
U8Overflows(n) == n > 255

\* let first_byte = (y * 8 + (x / 8)) as usize, computed in u8
first_byte_of(x, y) ==
    LET prod == y * 8
        sum == (prod % 256) + (x \div 8)
    IN  [overflow |-> U8Overflows(prod) \/ U8Overflows(sum), val |-> sum % 256]

\* The wrap-around of the second byte left out: a plausible slip
second_byte_nowrap(first_byte) == first_byte + 1

\* let mut second_byte = first_byte + 1;
\* if second_byte % 8 == 0 { second_byte -= 8; }
second_byte_of(first_byte) ==
    IF (first_byte + 1) % 8 = 0 THEN first_byte + 1 - 8 ELSE first_byte + 1

\* Some bit of a byte went from 1 to 0
BitCleared(old, new) == \E k \in 0..7 : Bit(new, k) < Bit(old, k)

\* Any change of a byte counted as a collision: a plausible slip
RowCollisionAnyChange(old_first, new_first, old_second, new_second) ==
    old_first # new_first \/ old_second # new_second

\* The check of one sprite row: for i in 0..8 { if ((new >> i) & 1) < ((old >> i) & 1) ... }
RowCollision(old_first, new_first, old_second, new_second) ==
    BitCleared(old_first, new_first) \/ BitCleared(old_second, new_second)

\* The sprite byte stored over the frame buffer byte: a plausible slip
BlendStore(old, bits) == bits

\* frame_buffer[k] ^= bits
Blend(old, bits) == BitXor(old, bits)

\* One iteration of the loop over the sprite's bytes, for row k (from 0)
DrawRow(acc, byte, k, x, first_byte, second_byte) ==
    LET fb == acc.fb
        bit_offset == x % 8
        loc1 == (first_byte + (k * 8)) % FRAME_BUFFER_BYTES
        loc2 == (second_byte + (k * 8)) % FRAME_BUFFER_BYTES
        old_first_byte == fb[loc1]
        old_second_byte == fb[loc2]
        fb1 == [fb EXCEPT ![loc1] = Blend(fb[loc1], Shr(byte, bit_offset))]
        new_first_byte == fb1[loc1]
        lower_bits == checked_shl(byte, 8 - bit_offset)
        fb2 == IF lower_bits.some
               THEN [fb1 EXCEPT ![loc2] = Blend(fb1[loc2], lower_bits.val)]
               ELSE fb1
        new_second_byte == fb2[loc2]
    IN  [fb |-> fb2,
         collision |-> acc.collision
                       \/ RowCollision(old_first_byte, new_first_byte,
                                       old_second_byte, new_second_byte)]

\* The loop over sprite bytes k..Len(sprite) - 1
RECURSIVE DrawRows(_, _, _, _, _, _)
DrawRows(acc, sprite, k, x, first_byte, second_byte) ==
    IF k >= Len(sprite) THEN acc
    ELSE DrawRows(DrawRow(acc, sprite[k + 1], k, x, first_byte, second_byte),
                  sprite, k + 1, x, first_byte, second_byte)

\* draw_sprite(sprite_location, sprite_bytes, x, y) on frame buffer fb over
\* memory mem: the slice of the sprite panics when it ends beyond the memory,
\* the u8 arithmetic of first_byte panics on overflow when overflow is checked.
draw_sprite(mem, fb, sprite_location, sprite_bytes, x, y, checks) ==
    LET in_memory == sprite_location + sprite_bytes <= MEMORY_SIZE
        first == first_byte_of(x, y)
    IN  IF ~in_memory \/ (checks /\ first.overflow)
        THEN [panic |-> TRUE, fb |-> fb, collision |-> FALSE]
        ELSE LET sprite == [k \in 1..sprite_bytes |->
                                MemAt(mem, sprite_location + k - 1)]
                 r == DrawRows([fb |-> fb, collision |-> FALSE], sprite, 0, x,
                               first.val, second_byte_of(first.val))
             IN  [panic |-> FALSE, fb |-> r.fb, collision |-> r.collision]

ExecDraw ==
    /\ Executing("Draw")
    /\ FbWritable
    /\ LET r == draw_sprite(memory, frame_buffer, i, Fetched.sprite_bytes,
                            v[Fetched.reg_x], v[Fetched.reg_y], overflow_checks)
       IN  IF r.panic
           THEN /\ Panics
                /\ UNCHANGED <<v, pc, frame_buffer>>
           ELSE /\ frame_buffer' = r.fb
                /\ v' = [v EXCEPT ![15] = IF r.collision THEN 1 ELSE 0]
                /\ pc' = pc + 2
                /\ Continues
    /\ UNCHANGED <<i, stack, sp, memory, timer_vars, overflow_checks, window, render_vars>>

-----------------------------------------------------------------------------
(* DRW and CLS beside a reader of the frame buffer: the write lock is taken, *)
(* the bytes are stored one part after the other, and the lock is released. *)

\* The sprite drawn without the write lock: a plausible slip
DrawBeginUnlocked ==
    /\ Executing("Draw")
    /\ LET r == draw_sprite(memory, frame_buffer, i, Fetched.sprite_bytes,
                            v[Fetched.reg_x], v[Fetched.reg_y], overflow_checks)
       IN  IF r.panic
           THEN /\ Panics
                /\ UNCHANGED draw
           ELSE /\ status' = "drawing"
                /\ draw' = [k |-> 0, collision |-> FALSE]
    /\ UNCHANGED <<cpu_regs, memory, frame_buffer, timer_vars, overflow_checks,
                   window, fb_lock, rendered, painted>>

\* draw_sprite up to let mut frame_buffer = self.frame_buffer.write().unwrap():
\* the slice of the sprite and first_byte, which may panic, come before the lock
DrawBegin ==
    /\ Executing("Draw")
    /\ LET r == draw_sprite(memory, frame_buffer, i, Fetched.sprite_bytes,
                            v[Fetched.reg_x], v[Fetched.reg_y], overflow_checks)
       IN  IF r.panic
           THEN /\ Panics
                /\ UNCHANGED <<fb_lock, draw>>
           ELSE /\ FbWritable
                /\ fb_lock' = "writer"
                /\ status' = "drawing"
                /\ draw' = [k |-> 0, collision |-> FALSE]
    /\ UNCHANGED <<cpu_regs, memory, frame_buffer, timer_vars, overflow_checks,
                   window, rendered, painted>>

\* One iteration of for k in 0..sprite_bytes, under the write lock
DrawRowStep ==
    /\ status = "drawing"
    /\ draw.k < instr.sprite_bytes
    /\ LET first == first_byte_of(v[instr.reg_x], v[instr.reg_y])
           r == DrawRow([fb |-> frame_buffer, collision |-> draw.collision],
                        MemAt(memory, i + draw.k), draw.k, v[instr.reg_x],
                        first.val, second_byte_of(first.val))
       IN  /\ frame_buffer' = r.fb
           /\ draw' = [k |-> draw.k + 1, collision |-> r.collision]
    /\ UNCHANGED <<cpu_regs, memory, key_state, chan_vars, status, instr,
                   timer_vars, overflow_checks, window, fb_lock, rendered, painted>>

\* After the loop: VF is set, draw_sprite returns and drops the write guard,
\* and the cycle ends with pc + 2
DrawEnd ==
    /\ status = "drawing"
    /\ draw.k >= instr.sprite_bytes
    /\ v' = [v EXCEPT ![15] = IF draw.collision THEN 1 ELSE 0]
    /\ pc' = pc + 2
    /\ status' = "running"
    /\ fb_lock' = "free"
    /\ UNCHANGED <<i, stack, sp, memory, key_state, frame_buffer, chan_vars,
                   instr, timer_vars, overflow_checks, window, draw, rendered, painted>>

\* CLS: let mut frame_buffer = self.frame_buffer.write().unwrap()
ClearBegin ==
    /\ Executing("Clear")
    /\ FbWritable
    /\ fb_lock' = "writer"
    /\ status' = "clearing"
    /\ draw' = [k |-> 0, collision |-> FALSE]
    /\ UNCHANGED <<cpu_regs, memory, frame_buffer, timer_vars, overflow_checks,
                   window, rendered, painted>>

\* The zeros stored in the first half only: a plausible slip
HalfClearedFirst(fb, k) ==
    [b \in 0..(FRAME_BUFFER_BYTES - 1) |->
        IF b < FRAME_BUFFER_BYTES \div 2 THEN 0 ELSE fb[b]]

\* Half k (0 or 1) of the buffer set to zero
HalfCleared(fb, k) ==
    [b \in 0..(FRAME_BUFFER_BYTES - 1) |->
        IF b \div (FRAME_BUFFER_BYTES \div 2) = k THEN 0 ELSE fb[b]]

\* *frame_buffer = [0; FRAME_BUFFER_BYTES]: the zeros are stored one half of
\* the buffer after the other
ClearStore ==
    /\ status = "clearing"
    /\ draw.k < 2
    /\ frame_buffer' = HalfCleared(frame_buffer, draw.k)
    /\ draw' = [draw EXCEPT !.k = draw.k + 1]
    /\ UNCHANGED <<cpu_regs, memory, key_state, chan_vars, status, instr,
                   timer_vars, overflow_checks, window, fb_lock, rendered, painted>>

\* The block ends, the write guard is dropped, and the cycle ends with pc + 2
ClearEnd ==
    /\ status = "clearing"
    /\ draw.k >= 2
    /\ pc' = pc + 2
    /\ status' = "running"
    /\ fb_lock' = "free"
    /\ UNCHANGED <<v, i, stack, sp, memory, key_state, frame_buffer, chan_vars,
                   instr, timer_vars, overflow_checks, window, draw, rendered, painted>>

-----------------------------------------------------------------------------
(* Operations the decoder knows whose execution is not in cpu.rs as given:   *)
(* they follow the operation catalogue.                                      *)

\* SHL Vx: VF = (Vx >> 7) & 1; Vx <<= 1
ShiftLeft(regs, reg) ==
    LET flagged == [regs EXCEPT ![15] = Bit(regs[reg], 7)]
    IN  [flagged EXCEPT ![reg] = Shl(flagged[reg], 1)]

ExecShiftLeftReg ==
    /\ Executing("ShiftLeftReg")
    /\ v' = ShiftLeft(v, Fetched.reg)
    /\ pc' = pc + 2
    /\ Continues
    /\ UNCHANGED <<i, stack, sp, memory, frame_buffer, timer_vars,
                   overflow_checks, window, render_vars>>

\* OR Vx,Vy
ExecOrRegs ==
    /\ Executing("OrRegs")
    /\ v' = [v EXCEPT ![Fetched.reg_x] = BitOr(v[Fetched.reg_x], v[Fetched.reg_y])]
    /\ pc' = pc + 2
    /\ Continues
    /\ UNCHANGED <<i, stack, sp, memory, frame_buffer, timer_vars,
                   overflow_checks, window, render_vars>>

\* XOR Vx,Vy
ExecXorRegs ==
    /\ Executing("XorRegs")
    /\ v' = [v EXCEPT ![Fetched.reg_x] = BitXor(v[Fetched.reg_x], v[Fetched.reg_y])]
    /\ pc' = pc + 2
    /\ Continues
    /\ UNCHANGED <<i, stack, sp, memory, frame_buffer, timer_vars,
                   overflow_checks, window, render_vars>>

\* SNE Vx,Vy
ExecSkipNEqRegs ==
    /\ Executing("SkipNEqRegs")
    /\ pc' = IF v[Fetched.reg_x] # v[Fetched.reg_y] THEN pc + 4 ELSE pc + 2
    /\ Continues
    /\ UNCHANGED <<v, i, stack, sp, memory, frame_buffer, timer_vars,
                   overflow_checks, window, render_vars>>

\* LD DT,Vx: the delay counter is written under its lock
ExecLdDtReg ==
    /\ Executing("LdDtReg")
    /\ delay_lock = "free"
    /\ delay_timer' = v[Fetched.reg]
    /\ pc' = pc + 2
    /\ Continues
    /\ UNCHANGED <<v, i, stack, sp, memory, frame_buffer, delay_lock,
                   timer_pc, timer_handle, overflow_checks, window, render_vars>>

\* LD Vx,DT: the delay counter is read under its lock
ExecLdRegDt ==
    /\ Executing("LdRegDt")
    /\ delay_lock = "free"
    /\ v' = [v EXCEPT ![Fetched.reg] = delay_timer]
    /\ pc' = pc + 2
    /\ Continues
    /\ UNCHANGED <<i, stack, sp, memory, frame_buffer, timer_vars,
                   overflow_checks, window, render_vars>>

-----------------------------------------------------------------------------
(* The window thread, as far as the processor sees it: it sends the events   *)
(* of the keyboard on one channel and, once, the closing of the window on    *)
(* the other.                                                                *)

\* The window is closed: the one-shot notification is sent
WindowClose ==
    /\ window = "open"
    /\ window' = "closed"
    /\ window_closed' = Append(window_closed, TRUE)
    /\ UNCHANGED <<cpu_regs, memory, key_state, frame_buffer, key_events, status,
                   instr, timer_vars, overflow_checks, render_vars>>

\* A keyboard event is sent
KeySend(event) ==
    /\ window = "open"
    /\ key_events' = Append(key_events, event)
    /\ UNCHANGED <<cpu_regs, memory, key_state, frame_buffer, window_closed,
                   status, instr, timer_vars, overflow_checks, window, render_vars>>

\* The window thread draws a frame: it takes the read lock of the frame
\* buffer, reads the 256 bytes, and releases the lock
RenderLock ==
    /\ window = "open"
    /\ fb_lock = "free"
    /\ fb_lock' = "reader"
    /\ UNCHANGED <<cpu_vars, timer_vars, overflow_checks, window, draw, rendered, painted>>

RenderRead ==
    /\ fb_lock = "reader"
    /\ rendered' = frame_buffer
    /\ UNCHANGED <<cpu_vars, timer_vars, overflow_checks, window, fb_lock, draw,
                   painted>>

RenderUnlock ==
    /\ fb_lock = "reader"
    /\ fb_lock' = "free"
    /\ UNCHANGED <<cpu_vars, timer_vars, overflow_checks, window, draw, rendered, painted>>

\* bit_is_set: byte & (1 << bit_index) > 0
bit_is_set(byte, bit_index) == BitAnd(byte, Shl(1, bit_index)) > 0

\* draw_frame_buffer: for every set bit of every byte of the frame a
\* rectangle at left = octet_index * 8 + (8 - bit_index), top = row, in pixels
\* of the 64 x 32 grid
draw_frame_buffer(frame) ==
    {<<(index % 8) * 8 + (8 - bit_index), index \div 8>> :
        <<index, bit_index>> \in
            {c \in (0..(FRAME_BUFFER_BYTES - 1)) \X (0..7) :
                bit_is_set(frame[c[1]], c[2])}}

\* The window thread paints the frame it holds
RenderPaint ==
    /\ window = "open"
    /\ painted' = draw_frame_buffer(rendered)
    /\ UNCHANGED <<cpu_vars, timer_vars, overflow_checks, window, fb_lock, draw,
                   rendered>>

\* The closure of the window thread returns after window.run(): the window
\* handler is dropped, and with it the senders of both channels
WindowEnd ==
    /\ window = "closed"
    /\ window' = "ended"
    /\ UNCHANGED <<cpu_vars, timer_vars, overflow_checks, render_vars>>

\* The window thread panics, as when the window cannot be built: the senders
\* are dropped and the closing of the window was never sent
WindowFail ==
    /\ window = "open"
    /\ window' = "ended"
    /\ UNCHANGED <<cpu_vars, timer_vars, overflow_checks, render_vars>>

-----------------------------------------------------------------------------
(* The timer, Timers::start: a job run at a fixed rate on the scheduler's    *)
(* pool; one run of the job is lock, test, decrement, unlock.                *)

\* Timers::start: the job is handed to the pool and its handle is kept
Timers_start ==
    /\ timer_handle = "None"
    /\ timer_handle' = "Scheduled"
    /\ UNCHANGED <<cpu_vars, delay_timer, delay_lock, timer_pc, overflow_checks,
                   window, render_vars>>

\* Timers::stop: if let Some(handle) = ... { handle.cancel() }.  cancel marks
\* the job and returns: the pool looks at the mark before it begins a run,
\* and a run that has begun goes on to its end.
Timers_stop ==
    /\ timer_handle' = IF timer_handle = "None" THEN "None" ELSE "Canceled"
    /\ UNCHANGED <<cpu_vars, delay_timer, delay_lock, timer_pc, overflow_checks,
                   window, render_vars>>

\* The run that does not take the lock: a plausible slip
TimerLockSkipped ==
    /\ timer_handle = "Scheduled"
    /\ timer_pc = "idle"
    /\ timer_pc' = "test"
    /\ UNCHANGED <<cpu_vars, delay_timer, delay_lock, timer_handle, overflow_checks,
                   window, render_vars>>

\* A run of the job begins: let mut delay_timer = delay_timer.lock().unwrap();
TimerLock ==
    /\ timer_handle = "Scheduled"
    /\ timer_pc = "idle"
    /\ delay_lock = "free"
    /\ delay_lock' = "timer"
    /\ timer_pc' = "test"
    /\ UNCHANGED <<cpu_vars, delay_timer, timer_handle, overflow_checks, window, render_vars>>

\* The decrement taken whatever the counter holds: a plausible slip
TimerPositiveAlways(t) == TRUE

\* if *delay_timer > 0
TimerPositive(t) == t > 0

TimerTest ==
    /\ timer_pc = "test"
    /\ timer_pc' = IF TimerPositive(delay_timer) THEN "decrement" ELSE "unlock"
    /\ UNCHANGED <<cpu_vars, delay_timer, delay_lock, timer_handle, overflow_checks, window, render_vars>>

\* The counter lowered by two: a plausible slip
TimerDecrementTwo ==
    /\ timer_pc = "decrement"
    /\ delay_timer' = (delay_timer + 254) % 256
    /\ timer_pc' = "unlock"
    /\ UNCHANGED <<cpu_vars, delay_lock, timer_handle, overflow_checks, window,
                   render_vars>>

\* *delay_timer -= 1, in u8: below zero it panics when overflow is checked
\* (the job ends, the lock is released poisoned) and wraps to 255 otherwise
TimerDecrement ==
    /\ timer_pc = "decrement"
    /\ IF delay_timer = 0 /\ overflow_checks
       THEN /\ delay_timer' = delay_timer
            /\ delay_lock' = "poisoned"
            /\ timer_pc' = "panicked"
       ELSE /\ delay_timer' = (delay_timer + 255) % 256
            /\ delay_lock' = delay_lock
            /\ timer_pc' = "unlock"
    /\ UNCHANGED <<cpu_vars, timer_handle, overflow_checks, window, render_vars>>

\* The guard is dropped at the end of the closure
TimerUnlock ==
    /\ timer_pc = "unlock"
    /\ delay_lock' = "free"
    /\ timer_pc' = "idle"
    /\ UNCHANGED <<cpu_vars, delay_timer, timer_handle, overflow_checks, window, render_vars>>

-----------------------------------------------------------------------------
(* Program files.  A program is the byte sequence load_game_data reads; the  *)
(* words below are the encodings decode_instruction takes apart.             *)

Word(hi, x, lsb) == <<hi * 16 + x, lsb>>
W_Jump(addr) == Word(1, addr \div 256, addr % 256)
W_Call(addr) == Word(2, addr \div 256, addr % 256)
W_LdRegByte(x, kk) == Word(6, x, kk)
W_AddRegByte(x, kk) == Word(7, x, kk)
W_Alu(x, y, n) == Word(8, x, y * 16 + n)
W_LdIAddr(addr) == Word(10, addr \div 256, addr % 256)
W_Draw(x, y, n) == Word(13, x, y * 16 + n)
W_LdDtReg(x) == Word(15, x, 21)
W_LdRegDt(x) == Word(15, x, 7)
W_Ret == <<0, 238>>
W_Sys == <<0, 0>>

\* A program that ends by jumping to its own last instruction
Halted(prog) == prog \o W_Jump(PROGRAM_START + Len(prog))

\* Bounds of the program files
MaxOperand == 1

\* Register contents the arithmetic programs load: the low values, their
\* complements, and both sides of bit 7
Operands == (0..MaxOperand) \cup {255 - k : k \in 0..MaxOperand} \cup {127, 128}
OperandRegs == {0, 1, 15}

\* The last nibble of the register-register words tried: 8xy4 (ADD), 8xy5
\* (SUB in the catalogue), 8xy6 (SHR), 8xyE (SHL)
AluNibbles == {4, 5, 6, 14}

\* LD VF,1; LD Vx,a; LD Vy,b; <8xyn>; halt
AluProgram(x, y, a, b, n) ==
    Halted(W_LdRegByte(15, 1) \o W_LdRegByte(x, a) \o W_LdRegByte(y, b)
           \o W_Alu(x, y, n))

\* LD VF,1; LD V1,b; LD Vx,a; ADD Vx,kk; halt
AddByteProgram(x, a, b, kk) ==
    Halted(W_LdRegByte(15, 1) \o W_LdRegByte(1, b) \o W_LdRegByte(x, a)
           \o W_AddRegByte(x, kk))

AluPrograms ==
    {AluProgram(x, y, a, b, n) :
        x \in OperandRegs, y \in OperandRegs, a \in Operands, b \in Operands,
        n \in AluNibbles}
    \cup {AddByteProgram(x, a, 7, kk) :
            x \in OperandRegs, a \in Operands, kk \in Operands}

\* Sprite rows and positions of the drawing programs
MaxRows == 2
SpriteData == <<170, 255, 129, 24, 102>>
DrawXs == {0, 1, 7, 8, 60, 63, 64, 255}
DrawYs == {0, 30, 31, 32, 255}
FirstDraws == {<<0, 0>>, <<1, 0>>, <<60, 31>>}

\* Draw MaxRows rows at p1, then n2 rows from sprite offset o2 at p2 with VF
\* holding 7; the sprite data is at address sprites.
DrawCode(sprites, p1, p2, o2, n2) ==
    Halted(W_LdIAddr(sprites) \o W_LdRegByte(0, p1[1]) \o W_LdRegByte(1, p1[2])
           \o W_Draw(0, 1, MaxRows)
           \o W_LdIAddr(sprites + o2) \o W_LdRegByte(0, p2[1])
           \o W_LdRegByte(1, p2[2]) \o W_LdRegByte(15, 7)
           \o W_Draw(0, 1, n2))

\* The sprite data follows the code
SpriteAddr == PROGRAM_START + Len(DrawCode(0, <<0, 0>>, <<0, 0>>, 0, 0))
DrawHalt == SpriteAddr - 2

DrawProgram(p1, p2, o2, n2) == DrawCode(SpriteAddr, p1, p2, o2, n2) \o SpriteData

DrawPrograms ==
    {DrawProgram(p1, <<x2, y2>>, o2, n2) :
        p1 \in FirstDraws, x2 \in DrawXs, y2 \in DrawYs, o2 \in {0, 1},
        n2 \in 0..MaxRows}

\* Programs of nested calls: main runs pad SYS words, calls F1 (twice when
\* again = 1) and halts; Fk runs pad SYS words, calls Fk+1 (k < depth) and
\* returns.
MaxNest == 3
MaxPad == 1

RECURSIVE SysWords(_)
SysWords(pad) == IF pad = 0 THEN <<>> ELSE W_Sys \o SysWords(pad - 1)

FuncAddr(k, pad, again) ==
    PROGRAM_START + 2 * (pad + 2 + again) + 2 * (pad + 2) * (k - 1)

RECURSIVE Funcs(_, _, _, _)
Funcs(k, depth, pad, again) ==
    IF k > depth THEN <<>>
    ELSE SysWords(pad)
         \o (IF k < depth THEN W_Call(FuncAddr(k + 1, pad, again)) ELSE <<>>)
         \o W_Ret
         \o Funcs(k + 1, depth, pad, again)

CallProgram(depth, pad, again) ==
    Halted(SysWords(pad) \o W_Call(FuncAddr(1, pad, again))
           \o (IF again = 1 THEN W_Call(FuncAddr(1, pad, again)) ELSE <<>>))
    \o Funcs(1, depth, pad, again)

CallPrograms ==
    {CallProgram(depth, pad, again) :
        depth \in 1..MaxNest, pad \in 0..MaxPad, again \in {0, 1}}

\* Programs that write the delay counter twice: LD V0,a; LD DT,V0; SYS;
\* LD V1,b; LD DT,V1; halt
MaxDelay == 2

DelayProgram(a, b) ==
    Halted(W_LdRegByte(0, a) \o W_LdDtReg(0) \o W_Sys
           \o W_LdRegByte(1, b) \o W_LdDtReg(1))

DelayPrograms ==
    {DelayProgram(a, b) : a \in 0..MaxDelay, b \in 0..MaxDelay}
    \cup {DelayProgram(255, 0), DelayProgram(0, 255)}

\* Programs of one operation: LD V0,a; LD V1,b; LD I,ia; <word>; halt; halt;
\* RET.  A jump goes to the second halt, a call to the RET.
OpWordAt == PROGRAM_START + 6
OpHalt1 == OpWordAt + 2
OpHalt2 == OpWordAt + 4
OpRet == OpWordAt + 6

OpProgram(a, b, ia, word) ==
    W_LdRegByte(0, a) \o W_LdRegByte(1, b) \o W_LdIAddr(ia) \o word
    \o W_Jump(OpHalt1) \o W_Jump(OpHalt2) \o W_Ret

\* The words tried with V0 = a: every operation the decoder knows, with the
\* skips in both outcomes, and words of the families it has no arm for
OpWords(a) ==
    {<<0, 224>>, W_Ret, W_Sys, Word(0, 1, 35),
     W_Jump(OpHalt2), W_Jump(MEMORY_SIZE - 1), W_Call(OpRet),
     Word(3, 0, a), Word(3, 0, (a + 1) % 256),
     Word(4, 0, a), Word(4, 0, (a + 1) % 256),
     Word(5, 0, 16), W_LdRegByte(1, 9), W_AddRegByte(0, 255),
     Word(9, 0, 16), Word(9, 0, 0), W_LdIAddr(291), Word(11, 2, 10),
     Word(12, 0, 15), W_Draw(0, 1, 1), W_Draw(0, 1, 15),
     Word(14, 0, 158), Word(14, 0, 161), Word(14, 0, 0),
     W_LdRegDt(0), Word(15, 0, 10), W_LdDtReg(0), Word(15, 0, 24),
     Word(15, 0, 30), Word(15, 0, 41), Word(15, 0, 51), Word(15, 1, 85),
     Word(15, 1, 101)}
    \cup {W_Alu(0, 1, n) : n \in (0..7) \cup {14}}

OpValues == {1, 254}
OpAddrs == {768, MEMORY_SIZE - 1}

OpPrograms ==
    {OpProgram(a, b, ia, word) :
        a \in OpValues, b \in {1, 255}, ia \in OpAddrs,
        word \in UNION {OpWords(c) : c \in OpValues}}

\* Keyboard events the window thread sends, and how many may wait in the
\* channel
MaxQueue == 1
KeyEvents ==
    {[kind |-> "press", button |-> "D1"], [kind |-> "release", button |-> "D1"],
     [kind |-> "press", button |-> "Space"]}

\* Programs that test a key: LD Vx,k; SKP Vx or SKNP Vx; halt; halt
KeyHalt1 == PROGRAM_START + 4
KeyHalt2 == PROGRAM_START + 6

KeyProgram(x, k, lsb) ==
    W_LdRegByte(x, k) \o Word(14, x, lsb) \o W_Jump(KeyHalt1) \o W_Jump(KeyHalt2)

KeyPrograms ==
    {KeyProgram(x, k, lsb) : x \in {0, 15}, k \in {0, 1, 15, 16}, lsb \in {158, 161}}

\* The events of the keys tested, and how many may wait in the channel
MaxKeyQueue == 2
TestedKeyEvents ==
    {[kind |-> kind, button |-> button] :
        kind \in {"press", "release"}, button \in {"D0", "D1", "F"}}
    \cup {[kind |-> "press", button |-> "Space"]}

\* Programs that store the decimal digits of a byte: LD Vx,a; LD I,ia;
\* LD B,Vx; halt
BcdProgram(x, a, ia) ==
    Halted(W_LdRegByte(x, a) \o W_LdIAddr(ia) \o Word(15, x, 51))

\* Addresses for I: in the middle of the memory and at its end
MemAddrs == {768, MEMORY_SIZE - 3, MEMORY_SIZE - 2}

BcdPrograms == {BcdProgram(x, a, ia) : x \in {0, 3}, a \in Byte, ia \in MemAddrs}

\* Programs that store registers and load them back: LD V0,..; ..; LD Vn,..;
\* LD I,ia; LD [I],V0..Vlast; LD V0,85; ..; LD Vn,85 + n; LD I,ia;
\* LD V0..Vlast,[I]; halt, with n = MaxLast
MaxLast == 2
RegValues == {0, 1, 255}

RECURSIVE LoadRegs(_, _)
LoadRegs(vals, k) ==
    IF k > Len(vals) THEN <<>>
    ELSE W_LdRegByte(k - 1, vals[k]) \o LoadRegs(vals, k + 1)

RegsProgram(vals, last, ia) ==
    Halted(LoadRegs(vals, 1) \o W_LdIAddr(ia) \o Word(15, last, 85)
           \o LoadRegs([k \in 1..Len(vals) |-> 84 + k], 1) \o W_LdIAddr(ia)
           \o Word(15, last, 101))

\* The addresses of the store and of the load in these programs
RegsStoreAt == PROGRAM_START + 2 * (MaxLast + 1) + 2
RegsLoadAt == RegsStoreAt + 2 + 2 * (MaxLast + 1) + 2

RegsPrograms ==
    {RegsProgram(vals, last, ia) :
        vals \in [1..(MaxLast + 1) -> RegValues], last \in 0..MaxLast,
        ia \in MemAddrs}

-----------------------------------------------------------------------------
(* Specifications *)

LoadAlu == status = "new" /\ \E rom \in AluPrograms : load_game_data(rom)

NextAlu ==
    \/ LoadAlu
    \/ ExecLdRegByte
    \/ ExecAddRegByte
    \/ ExecAddRegs
    \/ ExecShiftRightReg
    \/ ExecShiftLeftReg
    \/ DecodePanic
    \/ ExecJump

\* The arithmetic programs on the processor thread
SpecAlu == Init /\ [][NextAlu]_vars

LoadDraw == status = "new" /\ \E rom \in DrawPrograms : load_game_data(rom)

NextDraw ==
    \/ LoadDraw
    \/ ExecLdIAddr
    \/ ExecLdRegByte
    \/ ExecDraw
    \/ ExecJump

\* The drawing programs on the processor thread
SpecDraw == Init /\ [][NextDraw]_vars

LoadCall == status = "new" /\ \E rom \in CallPrograms : load_game_data(rom)

NextCall ==
    \/ LoadCall
    \/ ExecSys
    \/ ExecCall
    \/ ExecRet
    \/ ExecJump

\* The programs of nested calls on the processor thread
SpecCall == Init /\ [][NextCall]_vars

LoadDelay == status = "new" /\ \E rom \in DelayPrograms : load_game_data(rom)

NextTimer ==
    \/ LoadDelay
    \/ Timers_start
    \/ ExecLdRegByte
    \/ ExecLdDtReg
    \/ ExecSys
    \/ ExecJump
    \/ TimerLock
    \/ TimerTest
    \/ TimerDecrement
    \/ TimerUnlock

\* The timer's job beside a processor thread that writes the delay counter
SpecTimer == Init /\ [][NextTimer]_vars

LoadOp == status = "new" /\ \E rom \in OpPrograms : load_game_data(rom)

KeyEvent == Len(key_events) < MaxQueue /\ \E event \in KeyEvents : KeySend(event)

NextOps ==
    \/ LoadOp
    \/ KeyEvent
    \/ FetchPanic
    \/ DecodePanic
    \/ ExecAddIReg
    \/ ExecAddRegByte
    \/ ExecAddRegs
    \/ ExecAndRegs
    \/ ExecCall
    \/ ExecClear
    \/ ExecDraw
    \/ ExecLdIAddr
    \/ ExecLdIDigitReg
    \/ ExecLdMemIBcdReg
    \/ ExecLdMemIRegs
    \/ ExecLdRegByte
    \/ ExecLdRegKey
    \/ KeyWaitRecv
    \/ ExecLdRegsMemI
    \/ ExecLdRegReg
    \/ ExecJump
    \/ ExecRandRegByte
    \/ ExecRet
    \/ ExecShiftRightReg
    \/ ExecSkipEqRegBytes
    \/ ExecSkipNEqRegBytes
    \/ ExecSkipRegKeyPressed
    \/ ExecSkipRegKeyNPressed
    \/ ExecSys
    \/ ExecOrRegs
    \/ ExecXorRegs
    \/ ExecShiftLeftReg
    \/ ExecSkipNEqRegs
    \/ ExecLdDtReg
    \/ ExecLdRegDt

\* Programs of one operation each, beside the keyboard
SpecOps == Init /\ [][NextOps]_vars

LoadKey == status = "new" /\ \E rom \in KeyPrograms : load_game_data(rom)

TestedKeyEvent ==
    /\ Len(key_events) < MaxKeyQueue
    /\ \E event \in TestedKeyEvents : KeySend(event)

NextKeys ==
    \/ LoadKey
    \/ TestedKeyEvent
    \/ ExecLdRegByte
    \/ ExecSkipRegKeyPressed
    \/ ExecSkipRegKeyNPressed
    \/ ExecJump

\* The programs that test a key, beside the keyboard
SpecKeys == Init /\ [][NextKeys]_vars

LoadMem ==
    status = "new" /\ \E rom \in BcdPrograms \cup RegsPrograms : load_game_data(rom)

NextMem ==
    \/ LoadMem
    \/ ExecLdRegByte
    \/ ExecLdIAddr
    \/ ExecLdMemIBcdReg
    \/ ExecLdMemIRegs
    \/ ExecLdRegsMemI
    \/ ExecJump

\* The programs that move registers to memory and back
SpecMem == Init /\ [][NextMem]_vars

\* Every two-byte word, as a program of its own
LoadWord ==
    status = "new" /\ \E msb \in Byte, lsb \in Byte : load_game_data(<<msb, lsb>>)

NextDecode ==
    \/ LoadWord
    \/ DecodeFetched
    \/ DecodePanic

\* The decoder on every two-byte word
SpecDecode == Init /\ [][NextDecode]_vars

\* Programs that wait for a key: LD Vx,K; LD V1,1; halt
WaitPrograms == {Halted(Word(15, x, 10) \o W_LdRegByte(1, 1)) : x \in {0, 15}}

LoadWait == status = "new" /\ \E rom \in WaitPrograms : load_game_data(rom)

\* The cycles of the processor thread on the programs that wait for a key
EngineWait ==
    \/ LoadWait
    \/ ExecStop
    \/ ExecLdRegKey
    \/ KeyWaitRecv
    \/ KeyWaitDisconnected
    \/ ExecLdRegByte
    \/ ExecJump

NextWait ==
    \/ EngineWait
    \/ KeyEvent
    \/ WindowClose
    \/ WindowEnd
    \/ WindowFail

\* The programs that wait for a key, beside the keyboard and a window thread
\* that ends, after the window is closed or by a panic
SpecWait == Init /\ [][NextWait]_vars

\* The same under the scheduling of the threads: the processor thread takes
\* the cycle it can take, and the window thread, once the window is closed,
\* returns from its closure
SpecWaitFair ==
    /\ SpecWait
    /\ WF_vars(LoadWait)
    /\ WF_vars(ExecStop)
    /\ WF_vars(ExecLdRegKey)
    /\ WF_vars(KeyWaitRecv)
    /\ WF_vars(KeyWaitDisconnected)
    /\ WF_vars(ExecLdRegByte)
    /\ WF_vars(WindowEnd)

\* Programs that draw, run one other operation, and clear: LD V0,1;
\* LD V1,30; LD I,sprite; DRW V0,V1,MaxRows; the operation; CLS; halt; the
\* sprite
FrameOpAt == PROGRAM_START + 8
FrameSprite == PROGRAM_START + 14

FrameProgram(op) ==
    Halted(W_LdRegByte(0, 1) \o W_LdRegByte(1, 30) \o W_LdIAddr(FrameSprite)
           \o W_Draw(0, 1, MaxRows) \o op \o <<0, 224>>)
    \o SpriteData

\* One word of every operation but DRW and CLS
FrameOps ==
    {W_Sys, W_Ret, W_Jump(FrameOpAt + 2), W_Call(FrameOpAt + 2),
     Word(3, 0, 0), Word(4, 0, 1), Word(9, 0, 0), W_LdRegByte(2, 7),
     W_AddRegByte(0, 1), W_LdIAddr(FrameSprite), Word(12, 2, 85),
     Word(14, 0, 158), Word(14, 0, 161), W_LdRegDt(2), Word(15, 2, 10),
     W_LdDtReg(0), Word(15, 0, 30), Word(15, 0, 41), Word(15, 0, 51),
     Word(15, 1, 85), Word(15, 1, 101)}
    \cup {W_Alu(0, 1, n) : n \in {0, 1, 2, 3, 4, 6, 14}}

FramePrograms == {FrameProgram(op) : op \in FrameOps}

LoadFrame == status = "new" /\ \E rom \in FramePrograms : load_game_data(rom)

\* A key event sent when the channel is empty
FrameKeyEvent == key_events = <<>> /\ \E event \in KeyEvents : KeySend(event)

NextFrame ==
    \/ LoadFrame
    \/ FrameKeyEvent
    \/ RenderLock
    \/ RenderRead
    \/ RenderUnlock
    \/ Timers_start
    \/ TimerLock
    \/ TimerTest
    \/ TimerDecrement
    \/ TimerUnlock
    \/ DrawBegin
    \/ DrawRowStep
    \/ DrawEnd
    \/ ClearBegin
    \/ ClearStore
    \/ ClearEnd
    \/ ExecAddIReg
    \/ ExecAddRegByte
    \/ ExecAddRegs
    \/ ExecAndRegs
    \/ ExecCall
    \/ ExecLdIAddr
    \/ ExecLdIDigitReg
    \/ ExecLdMemIBcdReg
    \/ ExecLdMemIRegs
    \/ ExecLdRegByte
    \/ ExecLdRegKey
    \/ KeyWaitRecv
    \/ ExecLdRegsMemI
    \/ ExecLdRegReg
    \/ ExecJump
    \/ ExecRandRegByte
    \/ ExecRet
    \/ ExecShiftRightReg
    \/ ExecSkipEqRegBytes
    \/ ExecSkipNEqRegBytes
    \/ ExecSkipRegKeyPressed
    \/ ExecSkipRegKeyNPressed
    \/ ExecSys
    \/ ExecOrRegs
    \/ ExecXorRegs
    \/ ExecShiftLeftReg
    \/ ExecSkipNEqRegs
    \/ ExecLdDtReg
    \/ ExecLdRegDt

\* The processor thread on the programs that draw and clear, beside the
\* window thread that reads the frame buffer and sends key events, and the
\* timer
SpecFrame == Init /\ [][NextFrame]_vars

\* Programs that write and read the delay counter: LD V0,a; LD DT,V0;
\* LD V1,DT; LD V0,b; LD DT,V0; LD V2,DT; halt
CounterProgram(a, b) ==
    Halted(W_LdRegByte(0, a) \o W_LdDtReg(0) \o W_LdRegDt(1)
           \o W_LdRegByte(0, b) \o W_LdDtReg(0) \o W_LdRegDt(2))

CounterPrograms == {CounterProgram(a, b) : a \in 0..MaxDelay, b \in 0..MaxDelay}

LoadCounter == status = "new" /\ \E rom \in CounterPrograms : load_game_data(rom)

NextCounter ==
    \/ LoadCounter
    \/ ExecLdRegByte
    \/ ExecLdDtReg
    \/ ExecLdRegDt
    \/ ExecJump
    \/ Timers_start
    \/ Timers_stop
    \/ TimerLock
    \/ TimerTest
    \/ TimerDecrement
    \/ TimerUnlock

\* The timer, started and stopped at any time, beside a processor thread
\* that writes and reads the delay counter
SpecCounter == Init /\ [][NextCounter]_vars

\* Program files of every kind of length: JP 0x200 and then bytes that tell
\* their place in the file and the file they are from
FileOf(len, seed) ==
    [k \in 1..len |-> IF k = 1 THEN 18
                      ELSE IF k = 2 THEN 0
                      ELSE ((seed + k) % 255) + 1]

\* Empty, short, as long as the memory above 0x200, and longer
Files ==
    {FileOf(len, seed) : len \in {0, 1, 2, 3, 80}, seed \in 0..15}
    \cup {FileOf(len, seed) :
            len \in {MEMORY_SIZE - PROGRAM_START - 1, MEMORY_SIZE - PROGRAM_START,
                     MEMORY_SIZE - PROGRAM_START + 1, MEMORY_SIZE},
            seed \in {0, 1}}

LoadFile == status = "new" /\ \E rom \in Files : load_game_data(rom)

NextLoad ==
    \/ LoadFile
    \/ ExecJump

\* The load of program files of every kind of length
SpecLoad == Init /\ [][NextLoad]_vars

\* Programs that end in a fault or come near one.  Calls nested as deep as
\* the stack and one deeper; a call of itself; RET on the empty stack, at
\* once and after a call has returned; a jump to the last byte of the memory
\* and to the last word; stores into the font table.
EdgePrograms ==
    {CallProgram(depth, 0, again) :
        depth \in {STACK_SIZE - 1, STACK_SIZE, STACK_SIZE + 1}, again \in {0, 1}}
    \cup {W_Call(PROGRAM_START), W_Ret,
          W_Call(PROGRAM_START + 4) \o W_Ret \o W_Ret,
          W_Jump(MEMORY_SIZE - 1), W_Jump(MEMORY_SIZE - 2)}
    \cup {Halted(W_LdRegByte(0, 255) \o W_LdIAddr(ia) \o Word(15, 0, lsb)) :
            ia \in {0, Len(DIGITS) - 1, Len(DIGITS)}, lsb \in {51, 85}}

LoadEdge == status = "new" /\ \E rom \in EdgePrograms : load_game_data(rom)

NextEdge ==
    \/ LoadEdge
    \/ FetchPanic
    \/ ExecSys
    \/ ExecCall
    \/ ExecRet
    \/ ExecJump
    \/ ExecLdRegByte
    \/ ExecLdIAddr
    \/ ExecLdMemIBcdReg
    \/ ExecLdMemIRegs

\* The programs that end in a fault or come near one, on the processor thread
SpecEdge == Init /\ [][NextEdge]_vars

\* Programs that draw one row: LD V0,x; LD V1,y; LD I,sprite; DRW V0,V1,1;
\* halt; the sprite's byte
PaintProgram(x, y, byte) ==
    Halted(W_LdRegByte(0, x) \o W_LdRegByte(1, y)
           \o W_LdIAddr(PROGRAM_START + 10) \o W_Draw(0, 1, 1))
    \o <<byte>>

PaintPrograms ==
    {PaintProgram(x, y, byte) : x \in {0, 3, 56, 60}, y \in {0, 31},
                                byte \in {1, 129, 255}}

LoadPaint == status = "new" /\ \E rom \in PaintPrograms : load_game_data(rom)

NextPaint ==
    \/ LoadPaint
    \/ ExecLdRegByte
    \/ ExecLdIAddr
    \/ ExecDraw
    \/ ExecJump
    \/ RenderLock
    \/ RenderRead
    \/ RenderUnlock
    \/ RenderPaint

\* The window thread reads and paints the frame of programs that draw one row
SpecPaint == Init /\ [][NextPaint]_vars

\* Programs of one word of the 0x0 family, every one of them: LD V0,7; the
\* word; halt
FamilyZeroPrograms ==
    {W_LdRegByte(0, 7) \o <<msb, lsb>> \o W_Jump(PROGRAM_START + 4) :
        msb \in 0..15, lsb \in Byte}

LoadFamilyZero ==
    status = "new" /\ \E rom \in FamilyZeroPrograms : load_game_data(rom)

NextFamilyZero ==
    \/ LoadFamilyZero
    \/ ExecLdRegByte
    \/ ExecSys
    \/ ExecClear
    \/ ExecRet
    \/ ExecJump

\* Every word of the 0x0 family on the processor thread
SpecFamilyZero == Init /\ [][NextFamilyZero]_vars

NextStop ==
    \/ LoadKey
    \/ KeyEvent
    \/ WindowClose
    \/ ExecStop
    \/ ExecLdRegByte
    \/ ExecSkipRegKeyPressed
    \/ ExecSkipRegKeyNPressed
    \/ ExecJump

\* The programs that test a key, beside the keyboard and a window that is
\* closed at some time
SpecStop == Init /\ [][NextStop]_vars

-----------------------------------------------------------------------------
(* Properties.  A cycle is named by the word the processor finds at pc, as   *)
(* the operation catalogue writes it, and by the step it then takes.         *)

\* The processor is about to fetch the word at pc
AtWord == status = "running" /\ CanFetch
WordHi == MemAt(memory, pc) \div 16
WordX == MemAt(memory, pc) % 16
WordY == MemAt(memory, pc + 1) \div 16
WordN == MemAt(memory, pc + 1) % 16
WordKK == MemAt(memory, pc + 1)

\* The step is a cycle of the processor thread
CpuStep == pc' # pc \/ status' # status

\* C7: ADD Vx,Vy (8xy4), for every x and y including 0xF, leaves VF = 1 if the
\* old Vx + old Vy exceeds 255 and VF = 0 otherwise, and for x other than 0xF
\* leaves Vx = (old Vx + old Vy) mod 256.
C7_AddRegsCarry ==
    [][(AtWord /\ WordHi = 8 /\ WordN = 4 /\ CpuStep) =>
        /\ v'[15] = IF v[WordX] + v[WordY] > 255 THEN 1 ELSE 0
        /\ WordX # 15 => v'[WordX] = (v[WordX] + v[WordY]) % 256
        /\ status' = "running"]_vars

\* An ADD VF,Vy that overflowed has been executed: VF holds the carry, not
\* the sum
C7_Witness ==
    /\ instr.tag = "AddRegs"
    /\ instr.reg_x = 15
    /\ instr.reg_y # 15
    /\ v[15] = 1
    /\ v[instr.reg_y] = 255

\* C8: ADD Vx,byte (7xkk) leaves Vx = (old Vx + byte) mod 256 and, for x other
\* than 0xF, leaves VF and every other register unchanged, also when the
\* addition overflows 8 bits.
C8_AddRegByteFrame ==
    [][(AtWord /\ WordHi = 7 /\ CpuStep) =>
        /\ v'[WordX] = (v[WordX] + WordKK) % 256
        /\ WordX # 15 => \A r \in RegIdx \ {WordX} : v'[r] = v[r]
        /\ status' = "running"]_vars

\* An ADD Vx,byte with x other than 0xF has overflowed (the sum is below the
\* byte added) and VF still holds the 1 loaded before
C8_Witness ==
    /\ instr.tag = "AddRegByte"
    /\ instr.reg # 15
    /\ v[instr.reg] < instr.val
    /\ v[15] = 1

\* C9, as claimed: for every x including 0xF, SHR Vx (8xy6) leaves VF = bit 0
\* of the old Vx and SHL Vx (8xyE) leaves VF = bit 7 of the old Vx; for x other
\* than 0xF, Vx holds the old value shifted by one place within 8 bits.
C9_ShiftFlag ==
    [][(AtWord /\ WordHi = 8 /\ WordN \in {6, 14} /\ CpuStep) =>
        IF WordN = 6
        THEN /\ v'[15] = v[WordX] % 2
             /\ WordX # 15 => v'[WordX] = v[WordX] \div 2
        ELSE /\ v'[15] = v[WordX] \div 128
             /\ WordX # 15 => v'[WordX] = (v[WordX] * 2) % 256]_vars

\* C10, as claimed: SUB Vx,Vy (8xy5) leaves Vx = (old Vx - old Vy) mod 256 and
\* VF = 1 if old Vx > old Vy, VF = 0 otherwise.
C10_SubRegs ==
    [][(AtWord /\ WordHi = 8 /\ WordN = 5 /\ CpuStep) =>
        /\ v'[15] = IF v[WordX] > v[WordY] THEN 1 ELSE 0
        /\ WordX # 15 => v'[WordX] = (v[WordX] - v[WordY] + 256) % 256]_vars

-----------------------------------------------------------------------------
(* DRW Vx,Vy,n (Dxyn), as the claims describe it: sprite row k is the byte   *)
(* at I + k, drawn at pixel (x, y + k).                                      *)

DrawX == v[WordX]
DrawY == v[WordY]
SpriteRow(k) == MemAt(memory, i + k)
\* The sprite byte shifted right by x mod 8
RowFirstPart(k) == SpriteRow(k) \div Pow2(DrawX % 8)
\* The low x mod 8 bits of the sprite byte, moved to the top of a byte
RowSecondPart(k) ==
    ((SpriteRow(k) % Pow2(DrawX % 8)) * Pow2(8 - (DrawX % 8))) % 256
RowFirstLoc(k) == ((DrawY + k) % 32) * 8 + (DrawX \div 8)
RowSecondLoc(k) == ((DrawY + k) % 32) * 8 + (((DrawX \div 8) + 1) % 8)
DrawStep == AtWord /\ WordHi = 13 /\ CpuStep
OnScreen == DrawX \in 0..63 /\ DrawY \in 0..31

\* C2: a DRW that completes sets VF to exactly 1 if at least one frame buffer
\* pixel changes from set to unset, and to exactly 0 otherwise (pixels that
\* change from unset to set do not count); the old VF is overwritten.
C2_Collision ==
    [][(DrawStep /\ status' = "running") =>
        v'[15] = IF \E b \in 0..(FRAME_BUFFER_BYTES - 1) : \E k \in 0..7 :
                        Bit(frame_buffer[b], k) = 1 /\ Bit(frame_buffer'[b], k) = 0
                 THEN 1 ELSE 0]_vars

\* A DRW has erased a pixel and set another one, and VF went from 7 to 1
C2_Witness ==
    /\ instr.tag = "Draw"
    /\ pc = DrawHalt
    /\ v[15] = 1
    /\ \E b \in 0..(FRAME_BUFFER_BYTES - 1) : frame_buffer[b] # 0

\* C3: for x in 0..63 and y in 0..31, after DRW each frame buffer byte touched
\* by sprite row k is its old value XOR the matching part of the sprite byte
\* (nothing in the second byte when x mod 8 = 0), and every other byte is
\* unchanged.
C3_XorBlit ==
    [][(DrawStep /\ OnScreen) =>
        \A b \in 0..(FRAME_BUFFER_BYTES - 1) :
            frame_buffer'[b] =
                IF \E k \in 0..(WordN - 1) : b = RowFirstLoc(k)
                THEN LET k == CHOOSE k \in 0..(WordN - 1) : b = RowFirstLoc(k)
                     IN  BitXor(frame_buffer[b], RowFirstPart(k))
                ELSE IF \E k \in 0..(WordN - 1) : b = RowSecondLoc(k)
                THEN LET k == CHOOSE k \in 0..(WordN - 1) : b = RowSecondLoc(k)
                     IN  BitXor(frame_buffer[b], RowSecondPart(k))
                ELSE frame_buffer[b]]_vars

\* A two-row sprite has been drawn four pixels into a byte over a frame buffer
\* that was not empty, leaving pixels set
C3_Witness ==
    /\ instr.tag = "Draw"
    /\ pc = DrawHalt
    /\ instr.sprite_bytes = 2
    /\ v[0] = 60 /\ v[1] = 0
    /\ frame_buffer[7] # 0 /\ frame_buffer[0] # 0 /\ frame_buffer[8] # 0

\* C4: for x in 0..63 and y in 0..31, the two bytes touched by sprite row k lie
\* in frame buffer row (y + k) mod 32, the first at column byte x/8 and the
\* second at column byte (x/8 + 1) mod 8: no byte elsewhere changes, and the
\* byte at each of the two places changes when its part of the sprite is not 0.
C4_RowWrap ==
    [][(DrawStep /\ OnScreen) =>
        /\ \A b \in 0..(FRAME_BUFFER_BYTES - 1) :
              frame_buffer'[b] # frame_buffer[b] =>
                 \E k \in 0..(WordN - 1) : b \in {RowFirstLoc(k), RowSecondLoc(k)}
        /\ \A k \in 0..(WordN - 1) :
              /\ RowFirstPart(k) # 0 =>
                    frame_buffer'[RowFirstLoc(k)] # frame_buffer[RowFirstLoc(k)]
              /\ RowSecondPart(k) # 0 =>
                    frame_buffer'[RowSecondLoc(k)] # frame_buffer[RowSecondLoc(k)]]_vars

\* A two-row sprite drawn at x = 63, y = 31 has crossed the right edge and the
\* bottom row: it set pixels in bytes 255 and 248 (row 31) and 7 and 0 (row 0)
C4_Witness ==
    /\ instr.tag = "Draw"
    /\ pc = DrawHalt
    /\ instr.sprite_bytes = 2
    /\ v[0] = 63 /\ v[1] = 31
    /\ frame_buffer[255] # 0 /\ frame_buffer[248] # 0
    /\ frame_buffer[7] # 0 /\ frame_buffer[0] # 0

\* C5, as claimed: for every Vx and Vy in 0..255 and every n, DRW completes
\* without an arithmetic or indexing fault.
C5_DrawCompletes ==
    [][DrawStep => status' = "running"]_vars

-----------------------------------------------------------------------------
(* The call stack *)

CallStep == AtWord /\ WordHi = 2 /\ CpuStep
RetStep == AtWord /\ MemAt(memory, pc) = 0 /\ MemAt(memory, pc + 1) = 238 /\ CpuStep

\* C6: CALL addr executed at program counter p, and later the matching RET,
\* leave PC = p + 2 and the stack pointer at its value before the CALL.  The
\* CALL at stack pointer s stores p in stack entry s and raises the pointer
\* to s + 1; no step changes an entry below the pointer it leaves; the RET
\* that matches is the next one executed at pointer s + 1, and it lowers the
\* pointer to s and sets PC to entry s plus 2, just behind a CALL word.
C6_CallRet ==
    [][/\ (CallStep /\ sp < STACK_SIZE) =>
            /\ stack'[sp] = pc
            /\ sp' = sp + 1
            /\ pc' = WordX * 256 + WordKK
       /\ (RetStep /\ sp > 0) =>
            /\ sp' = sp - 1
            /\ pc' = stack[sp - 1] + 2
            /\ MemAt(memory, pc' - 2) \div 16 = 2
            /\ status' = "running"
       /\ \A k \in 0..(STACK_SIZE - 1) :
            (k < sp /\ k < sp') => stack'[k] = stack[k]]_vars

\* The RET matching the outermost CALL has been executed after a nested
\* CALL/RET pair: PC is just behind that CALL and the stack is empty again
C6_Witness ==
    /\ instr.tag = "Ret"
    /\ status = "running"
    /\ sp = 0
    /\ stack[1] # 0
    /\ pc = stack[0] + 2
    /\ MemAt(memory, pc - 2) \div 16 = 2

-----------------------------------------------------------------------------
(* The delay counter *)

TimerStep == timer_pc' # timer_pc

\* C1: under every interleaving of timer ticks and writes of the delay counter
\* by LD DT,Vx, the counter stays in 0..255, and a tick that finds it at 0
\* leaves it at 0: it never wraps to 255, and the job never fails.
C1_NoUnderflow ==
    /\ [](delay_timer \in 0..255 /\ timer_pc # "panicked")
    /\ [][(TimerStep /\ delay_timer = 0) => delay_timer' = 0]_vars

\* A tick is ending with the counter at 0 after the processor wrote it twice,
\* the second time with 1
C1_Witness ==
    /\ timer_pc = "unlock"
    /\ delay_timer = 0
    /\ instr.tag = "Jump"
    /\ v[1] = 1

-----------------------------------------------------------------------------
(* The program counter *)

\* The address operand of the word at pc
WordNNN == WordX * 256 + WordKK

\* The word at pc is a skip and its condition holds, on the registers and on
\* the keys as they are once the pending events are applied
SkipHolds ==
    \/ WordHi = 3 /\ v[WordX] = WordKK
    \/ WordHi = 4 /\ v[WordX] # WordKK
    \/ WordHi = 5 /\ v[WordX] = v[WordY]
    \/ WordHi = 9 /\ v[WordX] # v[WordY]
    \/ /\ WordHi = 14 /\ WordKK = 158 /\ v[WordX] < NUM_KEYS
       /\ update_key_state(key_state, key_events)[v[WordX]]
    \/ /\ WordHi = 14 /\ WordKK = 161 /\ v[WordX] < NUM_KEYS
       /\ ~update_key_state(key_state, key_events)[v[WordX]]

WordIsRet == MemAt(memory, pc) = 0 /\ MemAt(memory, pc + 1) = 238

\* The step ends the execution of the operation at pc and the engine goes on
Executed ==
    /\ status \in {"running", "waiting"}
    /\ CanFetch
    /\ CpuStep
    /\ status' = "running"

\* C11: an operation executed at program counter p leaves PC = p + 2, unless
\* it is JP or CALL, which leave PC = addr exactly, or RET, or a skip whose
\* condition holds.
C11_PcAdvance ==
    [][Executed =>
          IF WordHi \in {1, 2} THEN pc' = WordNNN
          ELSE (~WordIsRet /\ ~SkipHolds) => pc' = pc + 2]_vars

\* A CALL has been executed and the engine is at its target; the one register
\* load before it advanced by 2 each
C11_Witness ==
    /\ instr.tag = "Call"
    /\ status = "running"
    /\ pc = OpRet
    /\ sp = 1
    /\ stack[0] = OpWordAt

\* C12: SE Vx,byte at p leaves PC = p + 4 when Vx = byte and p + 2 otherwise,
\* SNE Vx,byte leaves p + 4 when Vx differs from byte and p + 2 otherwise;
\* neither changes a register, a memory byte or the stack.
C12_SkipByte ==
    [][(AtWord /\ WordHi \in {3, 4} /\ CpuStep) =>
          /\ status' = "running"
          /\ pc' = IF (WordHi = 3) = (v[WordX] = WordKK) THEN pc + 4 ELSE pc + 2
          /\ UNCHANGED <<v, i, memory, stack, sp>>]_vars

\* An SNE Vx,byte with Vx different from byte has skipped to the second halt
C12_Witness ==
    /\ instr.tag = "SkipNEqRegBytes"
    /\ v[instr.reg] # instr.val
    /\ status = "running"
    /\ pc = OpHalt2

-----------------------------------------------------------------------------
(* The keys *)

\* The key states once the events pending in the channel are applied
PendingApplied == update_key_state(key_state, key_events)

\* C13: with Vx in 0..15, SKP Vx at p leaves PC = p + 4 if the entry of key
\* Vx is pressed and p + 2 otherwise, SKNP Vx leaves p + 4 if it is not pressed
\* and p + 2 otherwise; the operation leaves the key states as the cycle's drain
\* of the pending events made them.
C13_SkipKey ==
    [][(/\ AtWord /\ WordHi = 14 /\ WordKK \in {158, 161}
        /\ v[WordX] \in 0..(NUM_KEYS - 1) /\ CpuStep) =>
          /\ status' = "running"
          /\ pc' = IF (WordKK = 158) = PendingApplied[v[WordX]]
                   THEN pc + 4 ELSE pc + 2
          /\ key_state' = PendingApplied
          /\ (key_events = <<>> => key_state' = key_state)]_vars

\* SKP VF has skipped on key F, which is pressed
C13_Witness ==
    /\ instr.tag = "SkipRegKeyPressed"
    /\ instr.reg = 15
    /\ v[15] = 15
    /\ key_state[15]
    /\ status = "running"
    /\ pc = KeyHalt2

-----------------------------------------------------------------------------
(* Registers to memory and back *)

\* The memory bytes at the addresses outside addrs are the same after the step
MemorySameOutside(addrs) ==
    \A a \in ((DOMAIN memory) \cup (DOMAIN memory')) \ addrs :
        MemAt(memory', a) = MemAt(memory, a)

\* C14: for every Vx in 0..255 and I + 2 <= 4095, LD B,Vx stores digits d2,
\* d1, d0 in 0..9 at memory[I], memory[I + 1], memory[I + 2] with
\* 100 * d2 + 10 * d1 + d0 = Vx, and leaves I, every register and every other
\* memory byte unchanged.
C14_Bcd ==
    [][(AtWord /\ WordHi = 15 /\ WordKK = 51 /\ i + 2 <= MEMORY_SIZE - 1
        /\ CpuStep) =>
          LET d2 == MemAt(memory', i)
              d1 == MemAt(memory', i + 1)
              d0 == MemAt(memory', i + 2)
          IN  /\ status' = "running"
              /\ {d2, d1, d0} \subseteq 0..9
              /\ 100 * d2 + 10 * d1 + d0 = v[WordX]
              /\ i' = i
              /\ v' = v
              /\ MemorySameOutside({i, i + 1, i + 2})]_vars

\* LD B,V3 has stored 2, 5, 4 for V3 = 254 in the last three bytes of memory
C14_Witness ==
    /\ instr.tag = "LdMemIBcdReg"
    /\ status = "running"
    /\ v[3] = 254
    /\ i = MEMORY_SIZE - 3
    /\ MemAt(memory, i) = 2
    /\ MemAt(memory, i + 1) = 5
    /\ MemAt(memory, i + 2) = 4

\* The value the program loaded into register k before its store: the operand
\* of its k-th word
ValueBeforeStore(k) == MemAt(memory, PROGRAM_START + 2 * k + 1)

\* C15: LD [I],V0..Vlast copies V0..Vlast to memory[I..I + last] and
\* LD V0..Vlast,[I] copies memory[I..I + last] into V0..Vlast, each setting I
\* to I + last + 1 and leaving the registers above last unchanged; after a
\* store, I set back and a load with the same last, V0..Vlast hold their
\* values from before the store.
C15_StoreLoad ==
    [][(AtWord /\ WordHi = 15 /\ WordKK \in {85, 101} /\ CpuStep
        /\ status' = "running") =>
          /\ i' = i + WordX + 1
          /\ \A r \in RegIdx : r > WordX => v'[r] = v[r]
          /\ WordKK = 85 => \A r \in 0..WordX : MemAt(memory', i + r) = v[r]
          /\ WordKK = 101 => \A r \in 0..WordX : v'[r] = MemAt(memory, i + r)
          /\ (WordKK = 101 /\ pc = RegsLoadAt) =>
                \A r \in 0..WordX : v'[r] = ValueBeforeStore(r)]_vars

\* The load after the store has brought back 255, 1 where 85, 86 had been
\* written over them, and has left V2 as it was overwritten
C15_Witness ==
    /\ instr.tag = "LdRegsMemI"
    /\ instr.last_reg = 1
    /\ status = "running"
    /\ pc = RegsLoadAt + 2
    /\ v[0] = 255
    /\ v[1] = 1
    /\ v[2] = 87
    /\ i = 768 + 2

-----------------------------------------------------------------------------
(* The decoder *)

\* The step decodes the word at pc
Decoded == status = "running" /\ CanFetch /\ instr' # instr

\* C16: decode maps each documented bit pattern to its operation, with x taken
\* from bits 8-11, y from bits 4-7, n from bits 0-3, kk from bits 0-7 and nnn
\* from bits 0-11 of the word.
C16_Decode ==
    [][Decoded =>
        /\ WordHi = 1 => instr' = [tag |-> "Jump", addr |-> WordNNN]
        /\ WordHi = 2 => instr' = [tag |-> "Call", addr |-> WordNNN]
        /\ WordHi = 3 =>
              instr' = [tag |-> "SkipEqRegBytes", reg |-> WordX, val |-> WordKK]
        /\ WordHi = 4 =>
              instr' = [tag |-> "SkipNEqRegBytes", reg |-> WordX, val |-> WordKK]
        /\ WordHi = 6 =>
              instr' = [tag |-> "LdRegByte", reg |-> WordX, val |-> WordKK]
        /\ WordHi = 7 =>
              instr' = [tag |-> "AddRegByte", reg |-> WordX, val |-> WordKK]
        /\ (WordHi = 8 /\ WordN = 0) =>
              instr' = [tag |-> "LdRegReg", reg_x |-> WordX, reg_y |-> WordY]
        /\ (WordHi = 8 /\ WordN = 2) =>
              instr' = [tag |-> "AndRegs", reg_x |-> WordX, reg_y |-> WordY]
        /\ (WordHi = 8 /\ WordN = 4) =>
              instr' = [tag |-> "AddRegs", reg_x |-> WordX, reg_y |-> WordY]
        /\ (WordHi = 8 /\ WordN = 6) =>
              instr' = [tag |-> "ShiftRightReg", reg |-> WordX]
        /\ WordHi = 10 => instr' = [tag |-> "LdIAddr", addr |-> WordNNN]
        /\ WordHi = 12 =>
              instr' = [tag |-> "RandRegByte", reg |-> WordX, val |-> WordKK]
        /\ WordHi = 13 =>
              instr' = [tag |-> "Draw", reg_x |-> WordX, reg_y |-> WordY,
                        sprite_bytes |-> WordN]
        /\ (WordHi = 14 /\ WordKK = 158) =>
              instr' = [tag |-> "SkipRegKeyPressed", reg |-> WordX]
        /\ (WordHi = 14 /\ WordKK = 161) =>
              instr' = [tag |-> "SkipRegKeyNPressed", reg |-> WordX]
        /\ (WordHi = 15 /\ WordKK = 10) =>
              instr' = [tag |-> "LdRegKey", reg |-> WordX]
        /\ (WordHi = 15 /\ WordKK = 30) =>
              instr' = [tag |-> "AddIReg", reg |-> WordX]
        /\ (WordHi = 15 /\ WordKK = 41) =>
              instr' = [tag |-> "LdIDigitReg", reg |-> WordX]
        /\ (WordHi = 15 /\ WordKK = 51) =>
              instr' = [tag |-> "LdMemIBcdReg", reg |-> WordX]
        /\ (WordHi = 15 /\ WordKK = 85) =>
              instr' = [tag |-> "LdMemIRegs", last_reg |-> WordX]
        /\ (WordHi = 15 /\ WordKK = 101) =>
              instr' = [tag |-> "LdRegsMemI", last_reg |-> WordX]]_vars

\* The word 0x2ABC has been decoded as CALL 0xABC
C16_Witness ==
    /\ MemAt(memory, PROGRAM_START) = 42
    /\ MemAt(memory, PROGRAM_START + 1) = 188
    /\ instr = [tag |-> "Call", addr |-> 2748]

\* The operations of the operation catalogue, by the names of the decoder's
\* variants; SubRegs and SkipEqRegs stand for SUB Vx,Vy and SE Vx,Vy
CatalogueOps ==
    {"Clear", "Ret", "Jump", "Call", "SkipEqRegBytes", "SkipNEqRegBytes",
     "SkipEqRegs", "SkipNEqRegs", "LdRegByte", "LdRegReg", "AddRegByte",
     "AddRegs", "OrRegs", "AndRegs", "XorRegs", "SubRegs", "ShiftRightReg",
     "ShiftLeftReg", "LdIAddr", "AddIReg", "LdIDigitReg", "LdMemIBcdReg",
     "LdMemIRegs", "LdRegsMemI", "RandRegByte", "Draw", "SkipRegKeyPressed",
     "SkipRegKeyNPressed", "LdRegKey", "LdRegDt", "LdDtReg", "Sys"}

\* C17: every operation of the catalogue is the result of decode for at least
\* one instruction word, and the words 8xy5 (SUB Vx,Vy) and 5xy0 (SE Vx,Vy)
\* are not rejected as unknown.
C17_CatalogueDecoded ==
    /\ \A op \in CatalogueOps :
          \E msb \in Byte, lsb \in Byte :
              decode_instruction(<<msb, lsb>>).tag = op
    /\ instr.tag = "UnknownOpCode" =>
          LET hi == instr.word \div 4096
              n == instr.word % 16
          IN  ~(hi = 8 /\ n = 5) /\ ~(hi = 5 /\ n = 0)

\* C18: on every word on which decode succeeds, each register operand of the
\* operation is in 0..15, each address operand in 0..4095 and the sprite
\* height in 0..15.
C18_OperandRanges ==
    instr.tag \notin {"None", "UnknownOpCode"} =>
        \A f \in DOMAIN instr :
            /\ f \in {"reg", "reg_x", "reg_y", "last_reg"} => instr[f] \in RegIdx
            /\ f = "addr" => instr[f] \in 0..(MEMORY_SIZE - 1)
            /\ f = "sprite_bytes" => instr[f] \in 0..15

\* The word 0xDFFF has been decoded as DRW VF,VF,15
C18_Witness ==
    /\ MemAt(memory, PROGRAM_START) = 223
    /\ MemAt(memory, PROGRAM_START + 1) = 255
    /\ instr.tag = "Draw"
    /\ instr.reg_x = 15
    /\ instr.reg_y = 15
    /\ instr.sprite_bytes = 15

\* The word at pc matches no operation the decoder knows
WordUnknown == decode_instruction(<<MemAt(memory, pc), MemAt(memory, pc + 1)>>).tag
                   = "UnknownOpCode"

\* C19: when the word fetched at PC matches no known opcode, the engine ends in
\* a fatal decode error that carries the full 16-bit word, first byte high; it
\* executes no further instruction, and for that word it has changed no
\* register, memory byte, stack entry, PC or frame buffer byte.
C19_UnknownOpcode ==
    /\ [][(AtWord /\ WordUnknown /\ CpuStep) =>
            /\ status' = "panicked"
            /\ instr'.tag = "UnknownOpCode"
            /\ instr'.word = MemAt(memory, pc) * 256 + MemAt(memory, pc + 1)
            /\ UNCHANGED <<v, i, pc, stack, sp, memory, frame_buffer>>]_vars
    /\ [][status = "panicked" =>
            UNCHANGED <<v, i, pc, stack, sp, memory, frame_buffer, key_state,
                        status, instr>>]_vars

\* The word 0xB20A, after three operations that changed V0, V1 and I, has
\* ended the engine
C19_Witness ==
    /\ status = "panicked"
    /\ instr.tag = "UnknownOpCode"
    /\ instr.word = 45578
    /\ pc = OpWordAt
    /\ v[0] = 254
    /\ i = 768

-----------------------------------------------------------------------------
(* The closing of the window *)

\* The closing of the window is the message at the front of its channel
SignalWaiting == window_closed # <<>> /\ Head(window_closed) = TRUE

\* The step is one of the processor thread: it changes what the thread owns
\* or takes from a channel
EngineStep ==
    \/ <<v, i, pc, stack, sp, memory, key_state, frame_buffer, status, instr>>'
          # <<v, i, pc, stack, sp, memory, key_state, frame_buffer, status, instr>>
    \/ Len(key_events') < Len(key_events)
    \/ Len(window_closed') < Len(window_closed)

\* C20: the engine checks the peripheral-closed signal at the start of every
\* cycle, before it drains the key events and before it fetches: with the
\* signal in the channel at the start of a cycle it stops, fetching and
\* executing nothing more and leaving PC, registers, memory, frame buffer, key
\* states and the pending key events as they were.
C20_StopAtTop ==
    /\ [][(status = "running" /\ SignalWaiting /\ EngineStep) =>
            /\ status' = "stopped"
            /\ UNCHANGED <<v, i, pc, stack, sp, memory, frame_buffer, key_state,
                           key_events, instr>>]_vars
    /\ [][status = "stopped" =>
            UNCHANGED <<v, i, pc, stack, sp, memory, frame_buffer, key_state,
                        key_events, status, instr>>]_vars

\* The engine has stopped between the register load and the key test, with a
\* key event still in the channel
C20_Witness ==
    /\ status = "stopped"
    /\ window = "closed"
    /\ pc = PROGRAM_START + 2
    /\ instr.tag = "LdRegByte"
    /\ key_events # <<>>

-----------------------------------------------------------------------------
(* The channels closed by their sender *)

\* Both channels are closed and hold nothing more
ChannelsClosed == window = "ended" /\ key_events = <<>> /\ window_closed = <<>>

\* C21: when the shutdown channel or the key-event channel is closed by its
\* sender, the engine treats this as the shutdown signal and terminates: the
\* step it takes then is the stop, not the execution of an operation.
C21_ClosedChannelStops ==
    [][(ChannelsClosed /\ status \in {"running", "waiting"} /\ EngineStep) =>
          status' = "stopped"]_vars

\* C22: LD Vx,K does not complete, and PC does not advance, until a press of a
\* mapped key is received after the wait began; on completion Vx holds that
\* key's code and its key state is true; a release received during the wait
\* sets its key's state to false without ending the wait, and the press of an
\* unmapped key neither ends the wait nor changes any state.
C22_KeyWait ==
    [][(status = "waiting" /\ EngineStep) =>
        /\ key_events # <<>>
        /\ LET event == Head(key_events)
               k == get_keycode(event.button)
           IN  IF event.kind = "press" /\ k.some
               THEN /\ status' = "running"
                    /\ pc' = pc + 2
                    /\ v' = [v EXCEPT ![WordX] = k.keycode]
                    /\ key_state' = [key_state EXCEPT ![k.keycode] = TRUE]
               ELSE /\ status' = "waiting"
                    /\ pc' = pc
                    /\ v' = v
                    /\ key_state' = IF event.kind = "release" /\ k.some
                                    THEN [key_state EXCEPT ![k.keycode] = FALSE]
                                    ELSE key_state]_vars

\* C23: if the closing of the window is sent, the engine eventually stops
\* executing operations, under the fair scheduling of its thread, also when it
\* is suspended in LD Vx,K at the moment the signal is sent and no further key
\* press arrives.
C23_SignalStops == SignalWaiting ~> status = "stopped"

\* The engine has stopped after a wait in LD Vx,K that no key press ended
C23_Witness ==
    /\ status = "stopped"
    /\ instr.tag = "LdRegKey"
    /\ pc = PROGRAM_START + 2
    /\ window = "ended"
    /\ \A k \in 0..(NUM_KEYS - 1) : ~key_state[k]

-----------------------------------------------------------------------------
(* The drain of the key events *)

\* The places in the channel of the events of key k
EventsOfKey(k) ==
    {j \in 1..Len(key_events) :
        LET b == get_keycode(key_events[j].button)
        IN  b.some /\ b.keycode = k /\ key_events[j].kind \in {"press", "release"}}

\* The last of a non-empty set of places
LastOf(places) == CHOOSE j \in places : \A other \in places : other <= j

\* C24: all key events pending at the start of a cycle are applied, in channel
\* order, before the cycle's operation is fetched and executed: afterwards
\* each key state is the kind of the last event delivered for its key (press
\* true, release false), the keys with no event are as before, the events of
\* unmapped keys change nothing, and no event is left in the channel.
C24_KeyDrain ==
    [][(status = "running" /\ ~SignalWaiting /\ EngineStep) =>
        /\ \A k \in 0..(NUM_KEYS - 1) :
              key_state'[k] =
                  IF EventsOfKey(k) = {} THEN key_state[k]
                  ELSE key_events[LastOf(EventsOfKey(k))].kind = "press"
        /\ key_events' = <<>>]_vars

\* Events were drained: two keys are pressed, a third is not, and the
\* channel is empty once the program has begun
C24_Witness ==
    /\ status = "running"
    /\ pc > PROGRAM_START
    /\ key_state[0] /\ key_state[15] /\ ~key_state[1]
    /\ key_events = <<>>

-----------------------------------------------------------------------------
(* The frame buffer and its reader *)

\* The word at pc is CLS, or DRW
WordIsCls == MemAt(memory, pc) = 0 /\ MemAt(memory, pc + 1) = 224
WordIsDrw == WordHi = 13

\* C25: only CLS and DRW change the shared frame buffer: every other
\* operation, the timer tick, the drain of the key events and the read of the
\* renderer leave all 256 bytes unchanged, and CLS leaves all 256 bytes zero.
C25_FrameWriters ==
    /\ [][frame_buffer' # frame_buffer =>
            /\ CanFetch /\ (WordIsCls \/ WordIsDrw)
            /\ status \in {"drawing", "clearing"}
            /\ draw' # draw
            /\ UNCHANGED <<delay_timer, timer_pc, rendered, key_state>>]_vars
    /\ [][(CanFetch /\ WordIsCls /\ pc' # pc) =>
            \A b \in 0..(FRAME_BUFFER_BYTES - 1) : frame_buffer'[b] = 0]_vars

\* CLS has cleared a frame buffer in which a sprite was drawn and which the
\* renderer had read
C25_Witness ==
    /\ status = "running"
    /\ instr.tag = "Clear"
    /\ pc = FrameOpAt + 4
    /\ \E b \in 0..(FRAME_BUFFER_BYTES - 1) : rendered[b] # 0
    /\ \A b \in 0..(FRAME_BUFFER_BYTES - 1) : frame_buffer[b] = 0

\* C26: a read of the frame buffer by the renderer, taken while the engine
\* runs, never observes a partly composited sprite or a partly cleared
\* screen: what it sees is the frame buffer before or after the whole DRW or
\* CLS, in every interleaving.
C26_WholeFrames ==
    /\ [][rendered' # rendered =>
            /\ status \notin {"drawing", "clearing"}
            /\ rendered' = frame_buffer]_vars
    /\ [](fb_lock = "reader" => status \notin {"drawing", "clearing"})

\* The renderer has read the sprite and holds the read lock while the engine
\* is at CLS
C26_Witness ==
    /\ AtWord /\ WordIsCls
    /\ fb_lock = "reader"
    /\ rendered = frame_buffer
    /\ \E b \in 0..(FRAME_BUFFER_BYTES - 1) : rendered[b] # 0

-----------------------------------------------------------------------------
(* The delay counter shared by the timer and the engine *)

\* The word at pc is LD DT,Vx, or LD Vx,DT
WordIsLdDt == WordHi = 15 /\ WordKK = 21
WordIsLdRegDt == WordHi = 15 /\ WordKK = 7

\* A run of the timer's job is between its lock and its unlock
TickRunning == timer_pc # "idle"

\* C27: a tick's test and decrement of the delay counter is atomic with
\* respect to the engine's write by LD DT,Vx and read by LD Vx,DT: no write or
\* read of the engine falls inside a tick, so the value a tick lowers is the
\* value it tested, not one from before a write that has completed, and
\* LD Vx,DT reads the value the last write or tick stored.
C27_TickAtomic ==
    /\ [][(AtWord /\ (WordIsLdDt \/ WordIsLdRegDt) /\ CpuStep) =>
            /\ ~TickRunning
            /\ WordIsLdRegDt => v'[WordX] = delay_timer]_vars
    /\ [][(TickRunning /\ delay_timer' # delay_timer) => TimerStep]_vars
    /\ [](timer_pc = "decrement" => delay_timer > 0)

\* The engine has read 1 from the counter it had set to 2: a tick came between
\* the write and the read
C27_Witness ==
    /\ instr.tag = "LdRegDt"
    /\ instr.reg = 1
    /\ v[0] = 2
    /\ v[1] = 1
    /\ delay_timer = 1

\* C28: the delay counter changes only by a timer tick or by LD DT,Vx: a tick
\* lowers it by exactly one while it is positive and leaves it at 0 once it is
\* 0, so that between two writes of the engine it never increases and, n
\* written, it is 0 after n ticks and stays 0.
C28_CounterChanges ==
    /\ [][delay_timer' # delay_timer =>
            \/ /\ AtWord /\ WordIsLdDt /\ CpuStep
               /\ delay_timer' = v[WordX]
               /\ timer_pc' = timer_pc
            \/ /\ TimerStep
               /\ status' = status /\ pc' = pc
               /\ delay_timer > 0
               /\ delay_timer' = delay_timer - 1]_vars
    /\ [][(TimerStep /\ delay_timer = 0) => delay_timer' = 0]_vars

\* The counter the engine set to 2 has come down to 0 and a later tick finds
\* it there
C28_Witness ==
    /\ instr.tag = "Jump"
    /\ v[0] = 2
    /\ v[2] = 2
    /\ delay_timer = 0
    /\ timer_pc = "unlock"

\* C29: after Timers::stop returns no further tick changes the delay
\* counter, not even a tick that was scheduled or running when stop was
\* called; stop called before start changes nothing.
C29_StopEndsTicks ==
    /\ [][(timer_handle = "Canceled" /\ TimerStep) => delay_timer' = delay_timer]_vars
    /\ [][(timer_handle = "None" /\ timer_handle' = "None") =>
            UNCHANGED <<delay_timer, delay_lock, timer_pc>> \/ CpuStep]_vars

-----------------------------------------------------------------------------
(* The load of the program *)

\* The memory from 0x200 holds the bytes of the file, in their order, as far
\* as they fit, and zeros after them
HoldsFile(mem, rom) ==
    \A a \in PROGRAM_START..(MEMORY_SIZE - 1) :
        MemAt(mem, a) = IF a - PROGRAM_START < Len(rom)
                        THEN rom[a - PROGRAM_START + 1] ELSE 0

\* C30: the load of a program of any length writes its bytes, in file order,
\* only to the addresses 0x200 and above: memory[0x000..0x1FF], and in it the
\* 80 bytes of the font table at 0x000..0x04F placed at construction, is the
\* same after the load as before, and PC is still 0x200.
C30_LoadAbove ==
    [][(status = "new" /\ status' # "new") =>
        /\ pc' = PROGRAM_START
        /\ \A a \in 0..(PROGRAM_START - 1) : MemAt(memory', a) = MemAt(memory, a)
        /\ \A a \in 0..(Len(DIGITS) - 1) : MemAt(memory', a) = DIGITS[a + 1]
        /\ \E rom \in Files : HoldsFile(memory', rom)]_vars

\* A file longer than the memory above 0x200 is loaded: the last byte of the
\* memory is written and the font table is in place
C30_Witness ==
    /\ status = "running"
    /\ pc = PROGRAM_START
    /\ MemAt(memory, MEMORY_SIZE - 1) # 0
    /\ MemAt(memory, 0) = DIGITS[1]
    /\ MemAt(memory, PROGRAM_START - 1) = 0

-----------------------------------------------------------------------------
(* The bounds of the stack *)

\* The engine has not ended in a fault
Live == status \in {"new", "running", "waiting", "stopped"}

\* C31, as claimed: in every reachable state of the engine, after any
\* sequence of CALL and RET, the stack pointer is in 0..16.
C31_StackPointer == sp \in 0..STACK_SIZE

\* C31, amended: in every state in which the engine has not ended in a fault
\* the stack pointer is in 0..16.
C31_StackPointerLive == Live => sp \in 0..STACK_SIZE

\* The stack is full: sixteen calls are nested
C31_Witness ==
    /\ status = "running"
    /\ sp = STACK_SIZE
    /\ instr.tag = "Call"

-----------------------------------------------------------------------------
(* The painting of the frame *)

\* The set bits of a frame, as pairs of byte index and bit index (0 the least
\* significant)
SetBits(frame) ==
    {c \in (0..(FRAME_BUFFER_BYTES - 1)) \X (0..7) :
        (frame[c[1]] \div Pow2(c[2])) % 2 = 1}

\* C32: the renderer paints bit b (0 the least significant) of frame buffer
\* byte i at column (i mod 8) * 8 + (7 - b) and row i / 8, so every set bit
\* lands inside the grid of 64 columns and 32 rows and distinct bits land on
\* distinct pixels.
C32_PixelPlaces ==
    /\ [][painted' # painted =>
            painted' = {<<(c[1] % 8) * 8 + (7 - c[2]), c[1] \div 8>> :
                          c \in SetBits(rendered)}]_vars
    /\ [](\A p \in painted : p[1] \in 0..63 /\ p[2] \in 0..31)

-----------------------------------------------------------------------------
(* The 0x0 family *)

\* C33: in the 0x0 family decode yields CLS for exactly the word 0x00E0, RET
\* for exactly 0x00EE, and SYS for every other word whose first byte is in
\* 0x00..0x0F (0x01E0 and 0x0FEE among them); SYS changes nothing but PC,
\* which advances by 2.
C33_FamilyZero ==
    [][(AtWord /\ WordHi = 0 /\ CpuStep) =>
        /\ instr'.tag = IF MemAt(memory, pc) = 0 /\ WordKK = 224 THEN "Clear"
                        ELSE IF MemAt(memory, pc) = 0 /\ WordKK = 238 THEN "Ret"
                        ELSE "Sys"
        /\ instr'.tag = "Sys" =>
              /\ pc' = pc + 2
              /\ status' = "running"
              /\ UNCHANGED <<v, i, stack, sp, memory, key_state, frame_buffer,
                             delay_timer>>]_vars

\* The word 0x0FEE was executed as SYS
C33_Witness ==
    /\ instr.tag = "Sys"
    /\ pc = PROGRAM_START + 4
    /\ MemAt(memory, pc - 2) = 15
    /\ MemAt(memory, pc - 1) = 238
    /\ v[0] = 7

\* No RET word lies at a, a + 2, ... before p
NoRetBetween(a, p) ==
    \A w \in a..(p - 1) :
        (w - a) % 2 = 0 => ~(MemAt(memory, w) = 0 /\ MemAt(memory, w + 1) = 238)

\* The target of the CALL word at address p
CallTargetAt(p) == (MemAt(memory, p) % 16) * 256 + MemAt(memory, p + 1)

\* The word at pc is a jump to itself
AtHalt == AtWord /\ WordHi = 1 /\ WordNNN = pc

\* C34: return addresses are used last in, first out: a CALL stores the
\* address of the CALL itself, not of the following instruction, above the
\* entries already there; a RET returns to just behind the latest CALL not yet
\* returned from, which is the one that entered the function the RET is in,
\* and lowers the stack pointer by one, so that k RETs after k nested CALLs
\* (k up to 16) go back through the call sites in reverse and leave the stack
\* pointer where it was before the first CALL.
C34_Lifo ==
    /\ [][(CallStep /\ sp < STACK_SIZE) =>
            /\ stack'[sp] = pc
            /\ sp' = sp + 1
            /\ \A k \in 0..(sp - 1) : stack'[k] = stack[k]]_vars
    /\ [][(RetStep /\ sp > 0) =>
            /\ sp' = sp - 1
            /\ stack' = stack
            /\ pc' = stack[sp - 1] + 2
            /\ MemAt(memory, stack[sp - 1]) \div 16 = 2
            /\ CallTargetAt(stack[sp - 1]) <= pc
            /\ NoRetBetween(CallTargetAt(stack[sp - 1]), pc)]_vars
    /\ [](AtHalt => sp = 0)

\* Sixteen nested calls have all returned: the stack is empty again, its last
\* entry was used, and PC is just behind the first CALL
C34_Witness ==
    /\ status = "running"
    /\ instr.tag = "Ret"
    /\ sp = 0
    /\ stack[STACK_SIZE - 1] # 0
    /\ pc = stack[0] + 2

\* The word at pc is executed, or ends the engine in a fault
WordStep == AtWord /\ EngineStep

\* C35: a CALL executed when the stack pointer is 16, a seventeenth nested
\* call, ends the engine in a fault without writing outside the 16 entries of
\* the stack and without changing the stack pointer, PC, any stack entry,
\* register or memory byte.
C35_CallOverflow ==
    /\ [][(WordStep /\ WordHi = 2 /\ sp = STACK_SIZE) =>
            /\ status' = "panicked"
            /\ UNCHANGED <<sp, pc, stack, v, i, memory, frame_buffer, key_state>>]_vars
    /\ [](DOMAIN stack = 0..(STACK_SIZE - 1))

\* The seventeenth nested call has ended the engine
C35_Witness ==
    /\ status = "panicked"
    /\ instr.tag = "Call"
    /\ sp = STACK_SIZE
    /\ stack[STACK_SIZE - 1] # 0
    /\ MemAt(memory, pc) \div 16 = 2

\* C36: a RET executed when the stack pointer is 0 ends the engine in a
\* fault: it does not set PC from a stack entry, and the stack pointer is not
\* outside 0..16 in a state from which another operation is executed.
C36_RetUnderflow ==
    /\ [][(WordStep /\ WordIsRet /\ sp = 0) =>
            /\ status' = "panicked"
            /\ pc' = pc]_vars
    /\ [](status \in {"running", "waiting"} => sp \in 0..STACK_SIZE)
    /\ [][status = "panicked" => UNCHANGED <<status, pc, sp, instr>>]_vars

\* RET on the empty stack, after a call has returned, has ended the engine
C36_Witness ==
    /\ status = "panicked"
    /\ instr.tag = "Ret"
    /\ pc = PROGRAM_START + 2
    /\ stack[0] = PROGRAM_START

-----------------------------------------------------------------------------
(* Addresses beyond the memory *)

\* The operation at pc would address a byte beyond 4095
BeyondMemory ==
    \/ WordHi = 15 /\ WordKK = 51 /\ i + 2 >= MEMORY_SIZE
    \/ WordHi = 15 /\ WordKK \in {85, 101} /\ i + WordX >= MEMORY_SIZE
    \/ WordHi = 13 /\ i + WordN > MEMORY_SIZE

-----------------------------------------------------------------------------
(* The fetch at the end of the memory *)

\* C38: every instruction fetch reads exactly the two bytes memory[pc] and
\* memory[pc + 1], with pc in 0..4094; when pc exceeds 4094 (after JP 0xFFF or
\* after the instruction at 4094) the engine ends in a fault, with nothing
\* read outside the memory and pc not wrapped.
C38_Fetch ==
    [][(status = "running" /\ EngineStep) =>
        IF pc <= MEMORY_SIZE - 2
        THEN /\ pc \in 0..(MEMORY_SIZE - 2)
             /\ instr' = decode_instruction(<<MemAt(memory, pc),
                                              MemAt(memory, pc + 1)>>)
        ELSE /\ status' = "panicked"
             /\ UNCHANGED <<pc, v, i, stack, sp, memory, frame_buffer,
                            instr>>]_vars

\* The instruction at 4094 has been executed and the fetch at 4096 has faulted
C38_Witness ==
    /\ status = "panicked"
    /\ pc = MEMORY_SIZE
    /\ instr.tag = "Sys"

-----------------------------------------------------------------------------
(* The key looked up by a skip *)

\* The word at pc is SKP Vx (Ex9E) or SKNP Vx (ExA1)
WordIsKeySkip == WordHi = 14 /\ WordKK \in {158, 161}

\* C39: for every value of Vx in 0..255, SKP Vx and SKNP Vx look up the key
\* states at an index in 0..15 and complete with pc = p + 2 or p + 4; no value
\* of Vx makes them look outside the 16 entries or fault.
C39_KeySkipCompletes ==
    [][(WordStep /\ WordIsKeySkip) =>
        /\ status' = "running"
        /\ pc' \in {pc + 2, pc + 4}]_vars

-----------------------------------------------------------------------------
(* The font table *)

\* C40: in every reachable state, after loading and after any sequence of
\* executed operations, memory bytes 0x000..0x04F hold the built-in font table
\* placed there at construction: no operation, LD [I],V0..Vlast and LD B,Vx
\* included, writes to them.
C40_FontKept ==
    \A a \in 0..(Len(DIGITS) - 1) : MemAt(memory, a) = DIGITS[a + 1]

====
